---- MODULE Spec2Model ----
(***************************************************************************)
(* Persistent state store of ratzek-services-http-backend                  *)
(* (src/src/persistent_state.rs) and the closures its callers hand to      *)
(* update (src/src/state.rs, src/src/telegram.rs).                         *)
(*                                                                         *)
(* Several tasks (cron jobs, HTTP handlers) share one PersistentStateGuard.*)
(* Each call of get/update is a sequence of steps; a step is what happens  *)
(* between two points where another task (or an external process touching  *)
(* the file) can run: a file system call, an acquisition of the tokio      *)
(* mutex on `state`, a statement of the mutator.                           *)
(***************************************************************************)
EXTENDS Integers, Sequences, FiniteSets, TLC

\* ------------------------------------------------------------------ bounds
\* The clock runs from 0 to MaxTime; timestamps taken after that are equal.
MaxTime == 1
\* Number of send_message enqueues over a run (bounds the queue length).
MaxEnqueue == 1
\* Number of times the file is written or deleted from outside.
MaxExternal == 1
\* Number of process restarts.
MaxRestarts == 1
\* Number of get/update calls over a run.
MaxCalls == 3
\* The same, in runs where nothing fails and nobody else touches the file.
MaxCallsClosed == 4
\* Number of process_queue runs and of send_message calls over a run of the
\* telegram jobs, and of the update calls they make.
MaxRuns == 2
MaxSends == 1
MaxCallsQueue == 6
\* Largest get_balance_retry_count, and number of get_balance calls over a run.
MaxRetryCount == 3
MaxInvocations == 2
\* Number of times the ping job fires over a run.
MaxPingRuns == 2
\* Number of times the speedtest job and the balance job fire over a run, and
\* of the store calls the two jobs make.
MaxSpeedtestRuns == 2
MaxBalanceRuns == 1
MaxCronCalls == 10
\* Number of times the scheduler calls a job's closure over a run.
MaxDispatches == 4

\* The tasks that call the store concurrently.
Tasks == {"t1", "t2"}
NoTask == "none"

\* ------------------------------------------------------------ data model
\* Option<T>: None is the empty sequence, Some(v) is <<v>>.
None == << >>
Some(v) == <<v>>

\* A queued telegram message (chat_id, text, timestamp).
TelegramMessage(chat, text, ts) == [chat_id |-> chat, text |-> text, timestamp |-> ts]

\* PersistentState::default(): every Option None, empty queue.
DefaultState ==
  [ is_wide_network_available |-> None,
    speedtest                 |-> None,
    last_tariff_update        |-> None,
    balance                   |-> None,
    telegram_queue            |-> << >> ]

\* ------------------------------------------------- serde_yaml conversion
\* A YAML document is a mapping from keys to nodes; a node is null, a
\* scalar or a sequence.  Option None is written as null, Some(v) as the
\* scalar of v, the queue as a sequence of mappings.
YNull == [k |-> "null"]
YScalar(v) == [k |-> "scalar", s |-> v]
YSeq(items) == [k |-> "seq", items |-> items]

OptToYaml(o) == IF o = None THEN YNull ELSE YScalar(o[1])

\* A serializer that leaves the balance out.
ToYaml_without_balance(st) ==
  [ kind |-> "doc",
    map  |-> [ is_wide_network_available |-> OptToYaml(st.is_wide_network_available),
               speedtest                 |-> OptToYaml(st.speedtest),
               last_tariff_update        |-> OptToYaml(st.last_tariff_update),
               telegram_queue            |-> YSeq(st.telegram_queue) ] ]

\* serde_yaml::to_string(&PersistentState)
ToYaml(st) ==
  [ kind |-> "doc",
    map  |-> [ is_wide_network_available |-> OptToYaml(st.is_wide_network_available),
               speedtest                 |-> OptToYaml(st.speedtest),
               last_tariff_update        |-> OptToYaml(st.last_tariff_update),
               balance                   |-> OptToYaml(st.balance),
               telegram_queue            |-> YSeq(st.telegram_queue) ] ]

\* Content that is not a PersistentState document.
EmptyContent == [kind |-> "empty"]
GarbageContent == [kind |-> "garbage"]

\* A key of an Option field: absent or null gives None.
OptFromYaml(map, key) ==
  IF key \in DOMAIN map /\ map[key].k = "scalar" THEN Some(map[key].s) ELSE None

\* The queue key carries #[serde(default)]: absent gives the empty Vec.
QueueFromYaml(map) ==
  IF "telegram_queue" \in DOMAIN map /\ map["telegram_queue"].k = "seq"
  THEN map["telegram_queue"].items ELSE << >>

\* serde_yaml::from_str: does the content parse as a PersistentState?  An
\* empty file is taken as a parse failure; a serde_yaml that reads it as a
\* document with every key absent loads the same default record.
ParsesAsState(content) ==
  /\ content.kind = "doc"
  /\ \A key \in DOMAIN content.map : content.map[key].k \in {"null", "scalar", "seq"}
  /\ "telegram_queue" \in DOMAIN content.map => content.map["telegram_queue"].k = "seq"

FromYaml(content) ==
  [ is_wide_network_available |-> OptFromYaml(content.map, "is_wide_network_available"),
    speedtest                 |-> OptFromYaml(content.map, "speedtest"),
    last_tariff_update        |-> OptFromYaml(content.map, "last_tariff_update"),
    balance                   |-> OptFromYaml(content.map, "balance"),
    telegram_queue            |-> QueueFromYaml(content.map) ]

\* ------------------------------------------------------------------ file
\* The backing file: whether it exists, its content, its modification time.
MissingFile == [exists |-> FALSE, content |-> EmptyContent, mtime |-> 0]
FileWith(content, t) == [exists |-> TRUE, content |-> content, mtime |-> t]

\* A load whose fallback on a parse failure is not the empty record.
load_from_yaml_bad_fallback(f) ==
  IF ~f.exists THEN DefaultState
  ELSE IF ~ParsesAsState(f.content)
       THEN [DefaultState EXCEPT !.is_wide_network_available = Some(FALSE)]
  ELSE FromYaml(f.content)

\* PersistentState::load_from_yaml: default on a read or a parse failure.
PersistentState_load_from_yaml(f) ==
  IF ~f.exists THEN DefaultState
  ELSE IF ~ParsesAsState(f.content) THEN DefaultState
  ELSE FromYaml(f.content)

\* A file written by another process or by hand: a document that sets only
\* the balance (the other keys absent), or text that is no document.
ExternalDoc == [kind |-> "doc", map |-> [balance |-> YScalar(2)]]
ExternalContents == {ExternalDoc, GarbageContent}

\* --------------------------------------------------------------- mutators
\* The closures handed to update, each a sequence of statements on the
\* record.  A statement assigns a field, pushes onto the queue, or takes a
\* clone of the queue as the closure's result (the record stays as it is).
Assign(fld, val) == [op |-> "assign", fld |-> fld, val |-> val]
Push(val) == [op |-> "push", fld |-> "telegram_queue", val |-> val]
Take == [op |-> "take", fld |-> "telegram_queue"]

ApplyStmt(st, s) ==
  IF s.op = "push"
  THEN [st EXCEPT !.telegram_queue = Append(@, s.val)]
  ELSE IF s.op = "take" THEN st
  ELSE [st EXCEPT ![s.fld] = s.val]

\* A closure that commits the opposite of the result.
ping_commit_negated(b) == << Assign("is_wide_network_available", Some(~b)) >>

\* ping job: is_wide_network_available = Some(b)
ping_commit(b) == << Assign("is_wide_network_available", Some(b)) >>
\* send_message: telegram_queue.push(message stamped with the current time)
enqueue(t) == << Push(TelegramMessage("chat", "text", t)) >>
\* schedule_update_persistent_state: several fields in one closure
full_commit(b, sp, v) ==
  << Assign("is_wide_network_available", Some(b)),
     Assign("speedtest", sp),
     Assign("balance", v) >>
\* a closure that changes nothing
identity == << >>

Mutators == {"ping", "enqueue", "full", "identity"}

\* The statements of mutator f when it runs at time t.
Body(f, t) ==
  CASE f = "ping"    -> ping_commit(TRUE)
    [] f = "enqueue" -> enqueue(t)
    [] f = "full"    -> full_commit(FALSE, None, Some(1))
    [] OTHER         -> identity

\* A closure that pushes the message twice.
push_message_twice(chat, text, t) ==
  << Push(TelegramMessage(chat, text, t)), Push(TelegramMessage(chat, text, t)) >>

\* send_message: the closure that pushes the message for one chat.
push_message(chat, text, t) == << Push(TelegramMessage(chat, text, t)) >>

\* process_queue, first update: r = telegram_queue.clone(); telegram_queue.clear(); r
drain == << Take, Assign("telegram_queue", << >>) >>

\* process_queue, second update: telegram_queue = new_queue
write_back(q) == << Assign("telegram_queue", q) >>

\* speedtest job: persistent_state.speedtest = Some(speedtest)
speedtest_commit(v) == << Assign("speedtest", Some(v)) >>

\* update_tariff: state.last_tariff_update = Some(chrono::Utc::now())
tariff_commit(t) == << Assign("last_tariff_update", Some(t)) >>

\* balance job: state.balance = Some(balance)
balance_commit(v) == << Assign("balance", Some(v)) >>

\* The statements of the closure of call c when it runs at time t.
BodyOf(c, t) ==
  CASE c.f = "push"       -> push_message(c.chat, c.text, t)
    [] c.f = "drain"      -> drain
    [] c.f = "write_back" -> write_back(c.arg)
    [] c.f = "ping_result" -> ping_commit(c.arg)
    [] c.f = "speedtest"  -> speedtest_commit(c.arg)
    [] c.f = "tariff"     -> tariff_commit(t)
    [] c.f = "balance"    -> balance_commit(c.arg)
    [] OTHER              -> Body(c.f, t)

\* ------------------------------------------------------------------ state
VARIABLES
  state,            \* PersistentStateGuard.state: the in-memory record
  stateLock,        \* owner of the tokio Mutex around state, or NoTask
  last_read_time,   \* PersistentStateGuard.last_read_time
  file,             \* the file at persistent_state_path
  now,              \* the clock (chrono::Utc::now, file system times)
  pc,               \* where each task is
  call,             \* the call each task is in: get, or update with a mutator
  idx,              \* update: next statement of the mutator
  meta,             \* is_changed_on_disk: the modification time read, if any
  loaded,           \* reload: the record load_from_yaml returned
  calls,            \* number of calls so far
  enqueues,         \* number of enqueue calls so far
  externals,        \* number of outside changes of the file so far
  restarts,         \* number of restarts so far
  snapshot,         \* history: the record of the last completed load or update
  ideal,            \* history: Some(the record with every mutator applied in
                    \*   order), None once a write failed or the file was
                    \*   changed from outside
  lastGet,          \* history: per task, Some(what its last get returned)
                    \*   while no update or outside change came after it
  failed,           \* history: Some(the record left by an update whose write
                    \*   failed) until a later update or outside change
  fresh,            \* history: an identity update was written ("written"),
                    \*   and the process restarted right after ("restarted")
  reloaded          \* history: per task, Some(the record its staleness reload
                    \*   loaded in this call) while no update held the mutex
                    \*   and nothing outside changed the file after the load

\* The telegram jobs: process_queue runs in the task of the retry cron job,
\* send_message in the task of the balance job.
VARIABLES
  pq,               \* process_queue: where it is
  queue,            \* process_queue: the local `queue` (the drained batch)
  new_queue,        \* process_queue: the local `new_queue`
  sm,               \* send_message: where it is
  dest,             \* send_message: index of the chat_id the loop is at
  result,           \* per task, how its last update call ended: ok or err
  message_timeout,  \* Telegram.message_timeout
  runs,             \* number of process_queue runs so far
  sends,            \* number of send_message calls so far
  drained,          \* history: the batch as the drain of this run took it
  attempted,        \* history: the messages this run tried to deliver, in order
  delivered,        \* history: the messages process_queue delivered
  dropped,          \* history: the messages process_queue dropped as expired
  tried,            \* history: the attempts of this send_message, in order
  pushed,           \* history: the messages this send_message pushed
  arrived           \* history: the messages pushed after the drain of this
                    \*   run returned and before its write back took the mutex

jvars == << pq, queue, new_queue, sm, dest, result, message_timeout, runs, sends,
            drained, attempted, delivered, dropped, tried, pushed, arrived >>

\* MobileProvider::get_balance.
VARIABLES
  get_balance_retry_count,  \* MobileProvider.get_balance_retry_count
  gb,               \* get_balance: where it is
  attempt,          \* get_balance: the loop variable of 0..retry_count
  balance,          \* get_balance: the local `balance`
  returned,         \* what the last get_balance returned, if any has
  invocations,      \* number of get_balance calls so far
  outcomes,         \* history: the result of each get_balance_once of this call
  restarted,        \* history: runs of restart_lte_command in this call
  restart_ok        \* history: whether the restart command could be run

bvars == << get_balance_retry_count, gb, attempt, balance, returned, invocations,
            outcomes, restarted, restart_ok >>

\* MobileProvider::get_balance_once, from the +CUSD payload on.
VARIABLES
  payload,          \* the text between the quotes of the +CUSD line
  gbo,              \* get_balance_once: where it is
  ucs2,             \* what decode_ucs2_in_hex returned
  utf8,             \* what decode_utf8_in_hex returned
  once,             \* what get_balance_once returned
  seen              \* history: number of variants the loop looked at

dvars == << payload, gbo, ucs2, utf8, once, seen >>

\* The mutex around State, and the ping job with its probe sequence.
VARIABLES
  mutex,            \* owner of the tokio Mutex around State, or NoTask
  ping,             \* ping job: where it is
  seq,              \* check_is_wide_internet_available: the loop variable
  success,          \* check_is_wide_internet_available: the local `success`
  pings,            \* number of times the ping job fired
  elapsed,          \* history: seconds since the probe sequence began
  probes,           \* history: the probes of this sequence, TRUE for a reply
  slept             \* history: number of 1 s sleeps in this sequence

pvars == << mutex, ping, seq, success, pings, elapsed, probes, slept >>

\* The speedtest job with update_tariff, and the balance job.
VARIABLES
  job,              \* per task, where its job is
  fires,            \* per task, number of times its job fired
  telegram,         \* config.telegram is Some
  speedtest,        \* speedtest job: the result of SpeedTest::run (download)
  unwrapped,        \* update_tariff: persistent_state_unwrapped
  balance_read,     \* balance job: the balance get_and_alert_balance got
  launches,         \* history: the times the tariff command was launched
  alerts,           \* history: per task, the notification tries of this run
  gave_up           \* history: per task, this run ended on a failed external call

cvars == << job, fires, telegram, speedtest, unwrapped, balance_read, launches,
            alerts, gave_up >>

\* The scheduler and the futures of the registered jobs.
VARIABLES
  live,             \* per registered job, the futures its closure returned
                    \*   that have not completed
  dispatches        \* number of times the scheduler called a job's closure

svars == << live, dispatches >>

\* The variables of the parts that no call of the store touches.
othervars == << bvars, dvars, pvars, cvars, svars >>

vars == << state, stateLock, last_read_time, file, now, pc, call, idx, meta,
           loaded, calls, enqueues, externals, restarts, snapshot, ideal,
           lastGet, failed, fresh, reloaded, jvars, othervars >>

NoCall == [kind |-> "none"]

\* Files the process can find at its first start.
InitFiles == {MissingFile, FileWith(ToYaml(DefaultState), 0), FileWith(ExternalDoc, 0)}

\* PersistentStateGuard::load_from_yaml: the state after construction.
StoreInit ==
  /\ file \in InitFiles
  /\ now = 0
  /\ last_read_time = 0
  /\ state = PersistentState_load_from_yaml(file)
  /\ stateLock = NoTask
  /\ pc = [p \in Tasks |-> "idle"]
  /\ call = [p \in Tasks |-> NoCall]
  /\ idx = [p \in Tasks |-> 1]
  /\ meta = [p \in Tasks |-> None]
  /\ loaded = [p \in Tasks |-> DefaultState]
  /\ calls = 0
  /\ enqueues = 0
  /\ externals = 0
  /\ restarts = 0
  /\ snapshot = state
  /\ ideal = Some(state)
  /\ lastGet = [p \in Tasks |-> None]
  /\ failed = None
  /\ fresh = "no"
  /\ reloaded = [p \in Tasks |-> None]

\* No telegram job has run yet.
JobsInit ==
  /\ pq = "idle"
  /\ queue = << >>
  /\ new_queue = << >>
  /\ sm = "idle"
  /\ dest = 1
  /\ result = [p \in Tasks |-> "none"]
  /\ runs = 0
  /\ sends = 0
  /\ drained = << >>
  /\ attempted = << >>
  /\ delivered = {}
  /\ dropped = {}
  /\ tried = << >>
  /\ pushed = << >>
  /\ arrived = {}

\* get_balance has not been called yet.
BalanceInit ==
  /\ gb = "idle"
  /\ attempt = 0
  /\ balance = None
  /\ returned = None
  /\ invocations = 0
  /\ outcomes = << >>
  /\ restarted = 0
  /\ restart_ok = TRUE

\* The ping job has not fired.
PingInit ==
  /\ mutex = NoTask
  /\ ping = "idle"
  /\ seq = 0
  /\ success = FALSE
  /\ pings = 0
  /\ elapsed = 0
  /\ probes = << >>
  /\ slept = 0

\* The jobs init_cronjobs registers: their closures.
Jobs == {"ping", "speedtest", "balance", "telegram_queue"}

\* scheduler.start() has not dispatched anything yet.
SchedulerInit ==
  /\ live = [j \in Jobs |-> 0]
  /\ dispatches = 0

\* No cron job has fired.
CronInit ==
  /\ SchedulerInit
  /\ job = [p \in Tasks |-> "idle"]
  /\ fires = [p \in Tasks |-> 0]
  /\ speedtest = 0
  /\ unwrapped = DefaultState
  /\ balance_read = 0
  /\ launches = << >>
  /\ alerts = [p \in Tasks |-> << >>]
  /\ gave_up = [p \in Tasks |-> FALSE]

\* No payload is being decoded.
NoDecode ==
  /\ payload = << >>
  /\ gbo = "idle"
  /\ ucs2 = [ok |-> FALSE, text |-> << >>, why |-> "none"]
  /\ utf8 = [ok |-> FALSE, text |-> << >>, why |-> "none"]
  /\ once = [ok |-> FALSE, v |-> [kind |-> "error", m |-> 0, scale |-> 0], why |-> "none"]
  /\ seen = 0

Init ==
  /\ StoreInit /\ JobsInit /\ message_timeout = 0
  /\ BalanceInit /\ get_balance_retry_count = MaxRetryCount
  /\ NoDecode /\ PingInit /\ CronInit /\ telegram = TRUE

\* ---------------------------------------------------------------- actions
Calls == {[kind |-> "get"]} \cup {[kind |-> "update", f |-> f] : f \in Mutators}

\* History kept by every step of an update call: an update is under way, so
\* no get is "consecutive" to an earlier one and no failed write is "the last".
UpdateActivity(p) ==
  IF call[p].kind = "update"
  THEN /\ lastGet' = [q \in Tasks |-> None]
       /\ failed' = None
  ELSE UNCHANGED << lastGet, failed >>

\* Where a call continues after reload(): get clones, update locks.
AfterReload(c) == IF c.kind = "get" THEN "clone" ELSE "lock"

\* A task calls get() or update(f); both start with self.reload().
CallOf(p, menu, max) ==
  /\ pc[p] = "idle"
  /\ calls < max
  /\ calls' = calls + 1
  /\ \E c \in menu :
       /\ c.kind = "update" /\ c.f = "enqueue" => enqueues < MaxEnqueue
       /\ call' = [call EXCEPT ![p] = c]
       /\ enqueues' = IF c.kind = "update" /\ c.f = "enqueue" THEN enqueues + 1 ELSE enqueues
       /\ IF c.kind = "update"
          THEN lastGet' = [q \in Tasks |-> None] /\ failed' = None
          ELSE UNCHANGED << lastGet, failed >>
  /\ pc' = [pc EXCEPT ![p] = "check"]
  /\ UNCHANGED << reloaded, state, stateLock, last_read_time, file, now, idx, meta, loaded,
                  externals, restarts, snapshot, ideal, fresh >>

Call(p) == CallOf(p, Calls, MaxCalls)

\* is_changed_on_disk: std::fs::metadata and modified() (an error returns
\* false at once), then the comparison under the last_read_time mutex.  The
\* two are one step: the comparison reads nothing but last_read_time, which
\* only grows, up to a time not before the file's.
IsChanged_missing_is_changed(f, lrt) == ~f.exists \/ f.mtime > lrt

IsChanged(f, lrt) == f.exists /\ f.mtime > lrt

is_changed_on_disk(p) ==
  /\ pc[p] = "check"
  /\ meta' = [meta EXCEPT ![p] = IF file.exists THEN Some(file.mtime) ELSE None]
  /\ pc' = [pc EXCEPT ![p] = IF IsChanged(file, last_read_time)
                             THEN "load" ELSE AfterReload(call[p])]
  /\ UpdateActivity(p)
  /\ UNCHANGED << reloaded, state, stateLock, last_read_time, file, now, call, idx, loaded,
                  calls, enqueues, externals, restarts, snapshot, ideal, fresh >>

\* reload: PersistentState::load_from_yaml(path), before the state mutex is taken.
reload_load(p) ==
  /\ pc[p] = "load"
  /\ loaded' = [loaded EXCEPT ![p] = PersistentState_load_from_yaml(file)]
  /\ pc' = [pc EXCEPT ![p] = "assign"]
  /\ UpdateActivity(p)
  /\ reloaded' = [reloaded EXCEPT ![p] = Some(loaded'[p])]
  /\ UNCHANGED << state, stateLock, last_read_time, file, now, call, idx, meta,
                  calls, enqueues, externals, restarts, snapshot, ideal, fresh >>

\* reload: self.state.lock().await; *state_guard = state;
\* *last_read_time.lock().await = Utc::now(); the guards drop.  One step:
\* nobody can read state while the guard is held.
reload_assign(p) ==
  /\ pc[p] = "assign"
  /\ stateLock = NoTask
  /\ state' = loaded[p]
  /\ last_read_time' = now
  /\ loaded' = [loaded EXCEPT ![p] = DefaultState]
  /\ snapshot' = loaded[p]
  /\ fresh' = IF loaded[p] = state THEN fresh ELSE "no"
  /\ pc' = [pc EXCEPT ![p] = AfterReload(call[p])]
  /\ UpdateActivity(p)
  /\ UNCHANGED << reloaded, stateLock, file, now, call, idx, meta, calls, enqueues,
                  externals, restarts, ideal >>

\* A get that reads state without taking the mutex.
get_clone_unlocked(p) ==
  /\ pc[p] = "clone"
  /\ lastGet' = [lastGet EXCEPT ![p] = Some(state)]
  /\ pc' = [pc EXCEPT ![p] = "idle"]
  /\ call' = [call EXCEPT ![p] = NoCall]
  /\ meta' = [meta EXCEPT ![p] = None]
  /\ reloaded' = [reloaded EXCEPT ![p] = None]
  /\ UNCHANGED << state, stateLock, last_read_time, file, now, idx, loaded,
                  calls, enqueues, externals, restarts, snapshot, ideal, failed, fresh >>

\* get: self.state.lock().await.clone(); the clone is what get returns.
get_clone(p) ==
  /\ pc[p] = "clone"
  /\ stateLock = NoTask
  /\ lastGet' = [lastGet EXCEPT ![p] = Some(state)]
  /\ pc' = [pc EXCEPT ![p] = "idle"]
  /\ call' = [call EXCEPT ![p] = NoCall]
  /\ meta' = [meta EXCEPT ![p] = None]
  /\ reloaded' = [reloaded EXCEPT ![p] = None]
  /\ UNCHANGED << state, stateLock, last_read_time, file, now, idx, loaded,
                  calls, enqueues, externals, restarts, snapshot, ideal, failed, fresh >>

\* An update that does not wait for the mutex.
update_lock_no_wait(p) ==
  /\ pc[p] = "lock"
  /\ stateLock' = p
  /\ pc' = [pc EXCEPT ![p] = IF Len(BodyOf(call[p], now)) = 0 THEN "write" ELSE "mutate"]
  /\ meta' = [meta EXCEPT ![p] = None]
  /\ UpdateActivity(p)
  /\ reloaded' = [q \in Tasks |-> None]
  /\ UNCHANGED << state, last_read_time, file, now, call, idx, loaded, calls, enqueues,
                  externals, restarts, snapshot, ideal, fresh >>

\* update: let mut state = self.state.lock().await
update_lock(p) ==
  /\ pc[p] = "lock"
  /\ stateLock = NoTask
  /\ stateLock' = p
  /\ pc' = [pc EXCEPT ![p] = IF Len(BodyOf(call[p], now)) = 0 THEN "write" ELSE "mutate"]
  /\ meta' = [meta EXCEPT ![p] = None]
  /\ UpdateActivity(p)
  /\ reloaded' = [q \in Tasks |-> None]
  /\ UNCHANGED << state, last_read_time, file, now, call, idx, loaded, calls, enqueues,
                  externals, restarts, snapshot, ideal, fresh >>

\* update: f(&mut state), one statement of the closure.
update_mutate(p) ==
  /\ pc[p] = "mutate"
  /\ LET body == BodyOf(call[p], now)
         s == body[idx[p]]
     IN /\ state' = ApplyStmt(state, s)
        /\ ideal' = IF ideal = None THEN None ELSE Some(ApplyStmt(ideal[1], s))
        /\ fresh' = "no"
        /\ idx' = [idx EXCEPT ![p] = IF idx[p] = Len(body) THEN 1 ELSE idx[p] + 1]
        /\ pc' = [pc EXCEPT ![p] = IF idx[p] = Len(body) THEN "write" ELSE "mutate"]
  /\ UpdateActivity(p)
  /\ reloaded' = [q \in Tasks |-> None]
  /\ UNCHANGED << stateLock, last_read_time, file, now, call, meta, loaded,
                  calls, enqueues, externals, restarts, snapshot >>

\* update returns: the guard drops, the caller gets Ok(r) or the error.
Return(p) ==
  /\ stateLock' = NoTask
  /\ pc' = [pc EXCEPT ![p] = "idle"]
  /\ call' = [call EXCEPT ![p] = NoCall]
  /\ snapshot' = state
  /\ lastGet' = [q \in Tasks |-> None]
  /\ reloaded' = [q \in Tasks |-> None]

\* update: std::fs::write opens the file with create and truncate: the file
\* is now empty.
update_write_open(p) ==
  /\ pc[p] = "write"
  /\ file' = FileWith(EmptyContent, now)
  /\ pc' = [pc EXCEPT ![p] = "write_all"]
  /\ fresh' = "no"
  /\ UpdateActivity(p)
  /\ reloaded' = [q \in Tasks |-> None]
  /\ UNCHANGED << state, stateLock, last_read_time, now, call, idx, meta, loaded,
                  calls, enqueues, externals, restarts, snapshot, ideal >>

\* An error return that leaves the state mutex locked.
update_write_open_fails_keeps_guard(p) ==
  /\ pc[p] = "write"
  /\ pc' = [pc EXCEPT ![p] = "idle"]
  /\ call' = [call EXCEPT ![p] = NoCall]
  /\ snapshot' = state
  /\ lastGet' = [q \in Tasks |-> None]
  /\ reloaded' = [q \in Tasks |-> None]
  /\ failed' = Some(state)
  /\ ideal' = None
  /\ UNCHANGED << state, stateLock, last_read_time, file, now, idx, meta, loaded, calls,
                  enqueues, externals, restarts, fresh >>

\* update: std::fs::write cannot open the file; `?` returns the error.
update_write_open_fails(p) ==
  /\ pc[p] = "write"
  /\ Return(p)
  /\ failed' = Some(state)
  /\ ideal' = None
  /\ UNCHANGED << state, last_read_time, file, now, idx, meta, loaded, calls, enqueues,
                  externals, restarts, fresh >>

\* update: std::fs::write writes the serialized record; Ok(r) is returned.
update_write_all(p) ==
  /\ pc[p] = "write_all"
  /\ file' = FileWith(ToYaml(state), now)
  /\ Return(p)
  /\ failed' = None
  /\ fresh' = IF call[p].f = "identity" THEN "written" ELSE "no"
  /\ UNCHANGED << state, last_read_time, now, idx, meta, loaded, calls, enqueues,
                  externals, restarts, ideal >>

\* update: std::fs::write fails while writing; `?` returns the error and the
\* file stays as the open left it.
update_write_all_fails(p) ==
  /\ pc[p] = "write_all"
  /\ Return(p)
  /\ failed' = Some(state)
  /\ ideal' = None
  /\ UNCHANGED << state, last_read_time, file, now, idx, meta, loaded, calls, enqueues,
                  externals, restarts, fresh >>

\* The process ends (at any point) and starts again: a new guard is built
\* from the same path, PersistentStateGuard::load_from_yaml.
PersistentStateGuard_load_from_yaml ==
  /\ restarts < MaxRestarts
  /\ restarts' = restarts + 1
  /\ state' = PersistentState_load_from_yaml(file)
  /\ last_read_time' = now
  /\ stateLock' = NoTask
  /\ pc' = [p \in Tasks |-> "idle"]
  /\ call' = [p \in Tasks |-> NoCall]
  /\ idx' = [p \in Tasks |-> 1]
  /\ meta' = [p \in Tasks |-> None]
  /\ loaded' = [p \in Tasks |-> DefaultState]
  /\ snapshot' = state'
  /\ ideal' = Some(state')
  /\ lastGet' = [p \in Tasks |-> None]
  /\ failed' = None
  /\ fresh' = IF fresh = "written" THEN "restarted" ELSE "no"
  /\ reloaded' = [p \in Tasks |-> None]
  /\ UNCHANGED << file, now, calls, enqueues, externals >>

\* History kept by a change of the file from outside.
Outside ==
  /\ externals < MaxExternal
  /\ externals' = externals + 1
  /\ ideal' = None
  /\ lastGet' = [p \in Tasks |-> None]
  /\ failed' = None
  /\ fresh' = "no"
  /\ reloaded' = [p \in Tasks |-> None]
  /\ UNCHANGED << state, stateLock, last_read_time, now, pc, call, idx, meta,
                  loaded, calls, enqueues, restarts, snapshot >>

\* Somebody else writes the file.
ExternalEdit ==
  /\ \E c \in ExternalContents : file' = FileWith(c, now)
  /\ Outside

\* Somebody else deletes the file.
ExternalDelete ==
  /\ file.exists
  /\ file' = MissingFile
  /\ Outside

\* Time passes.
Tick ==
  /\ now < MaxTime
  /\ now' = now + 1
  /\ UNCHANGED << reloaded, state, stateLock, last_read_time, file, pc, call, idx, meta,
                  loaded, calls, enqueues, externals, restarts, snapshot, ideal,
                  lastGet, failed, fresh >>

Next ==
  \/ \E p \in Tasks : Call(p) /\ UNCHANGED jvars /\ UNCHANGED othervars
  \/ \E p \in Tasks : is_changed_on_disk(p) /\ UNCHANGED jvars /\ UNCHANGED othervars
  \/ \E p \in Tasks : reload_load(p) /\ UNCHANGED jvars /\ UNCHANGED othervars
  \/ \E p \in Tasks : reload_assign(p) /\ UNCHANGED jvars /\ UNCHANGED othervars
  \/ \E p \in Tasks : get_clone(p) /\ UNCHANGED jvars /\ UNCHANGED othervars
  \/ \E p \in Tasks : update_lock(p) /\ UNCHANGED jvars /\ UNCHANGED othervars
  \/ \E p \in Tasks : update_mutate(p) /\ UNCHANGED jvars /\ UNCHANGED othervars
  \/ \E p \in Tasks : update_write_open(p) /\ UNCHANGED jvars /\ UNCHANGED othervars
  \/ \E p \in Tasks : update_write_open_fails(p) /\ UNCHANGED jvars /\ UNCHANGED othervars
  \/ \E p \in Tasks : update_write_all(p) /\ UNCHANGED jvars /\ UNCHANGED othervars
  \/ \E p \in Tasks : update_write_all_fails(p) /\ UNCHANGED jvars /\ UNCHANGED othervars
  \/ PersistentStateGuard_load_from_yaml /\ UNCHANGED jvars /\ UNCHANGED othervars
  \/ ExternalEdit /\ UNCHANGED jvars /\ UNCHANGED othervars
  \/ ExternalDelete /\ UNCHANGED jvars /\ UNCHANGED othervars
  \/ Tick /\ UNCHANGED jvars /\ UNCHANGED othervars

Spec == Init /\ [][Next]_vars

\* Runs in which every write succeeds, the process keeps running and nobody
\* else touches the file; the callers are the ping job, send_message and
\* readers.
ClosedCalls == {[kind |-> "get"], [kind |-> "update", f |-> "ping"],
                [kind |-> "update", f |-> "enqueue"]}

CallClosed(p) == CallOf(p, ClosedCalls, MaxCallsClosed)

NextClosed ==
  \/ \E p \in Tasks : CallClosed(p) /\ UNCHANGED jvars /\ UNCHANGED othervars
  \/ \E p \in Tasks : is_changed_on_disk(p) /\ UNCHANGED jvars /\ UNCHANGED othervars
  \/ \E p \in Tasks : reload_load(p) /\ UNCHANGED jvars /\ UNCHANGED othervars
  \/ \E p \in Tasks : reload_assign(p) /\ UNCHANGED jvars /\ UNCHANGED othervars
  \/ \E p \in Tasks : get_clone(p) /\ UNCHANGED jvars /\ UNCHANGED othervars
  \/ \E p \in Tasks : update_lock(p) /\ UNCHANGED jvars /\ UNCHANGED othervars
  \/ \E p \in Tasks : update_mutate(p) /\ UNCHANGED jvars /\ UNCHANGED othervars
  \/ \E p \in Tasks : update_write_open(p) /\ UNCHANGED jvars /\ UNCHANGED othervars
  \/ \E p \in Tasks : update_write_all(p) /\ UNCHANGED jvars /\ UNCHANGED othervars
  \/ Tick /\ UNCHANGED jvars /\ UNCHANGED othervars

SpecClosed == Init /\ [][NextClosed]_vars

\* ---------------------------------------------------------- telegram jobs
\* The tasks of the two callers: the retry cron job runs process_queue, the
\* balance job runs send_message through alert_balance.
QueueTask == "t1"
SendTask == "t2"

\* send_message's chat_ids and text: telegram_chat_ids and the alert.
ChatIds == << "a", "b" >>
AlertText == "text"

\* Values of Telegram.message_timeout, in clock ticks.
MessageTimeouts == {0, 1}

InitQueue ==
  /\ StoreInit /\ JobsInit /\ message_timeout \in MessageTimeouts
  /\ BalanceInit /\ get_balance_retry_count = MaxRetryCount
  /\ NoDecode /\ PingInit /\ CronInit /\ telegram = TRUE

\* The store variables a step of a job leaves alone when it calls nothing.
StoreUnchanged ==
  UNCHANGED << state, stateLock, last_read_time, file, now, pc, call, idx, meta,
               loaded, calls, enqueues, externals, restarts, snapshot, ideal,
               lastGet, failed, fresh, reloaded >>

\* process_queue is called: persistent_state.update(drain) starts.
process_queue(p) ==
  /\ p = QueueTask
  /\ pq \in {"idle", "done", "failed"}
  /\ runs < MaxRuns
  /\ runs' = runs + 1
  /\ CallOf(p, {[kind |-> "update", f |-> "drain"]}, MaxCallsQueue)
  /\ pq' = "drain"
  /\ queue' = << >>
  /\ new_queue' = << >>
  /\ drained' = << >>
  /\ attempted' = << >>
  /\ arrived' = {}
  /\ result' = [result EXCEPT ![p] = "none"]
  /\ UNCHANGED << sm, dest, message_timeout, sends, delivered, dropped, tried, pushed >>

\* process_queue: `.await?` on the drain: an error ends the run, the batch
\* is gone; otherwise queue is the batch and new_queue = Vec::new().
process_queue_drained(p) ==
  /\ p = QueueTask
  /\ pq = "drain" /\ pc[p] = "idle" /\ result[p] # "none"
  /\ pq' = IF result[p] = "ok" THEN "loop" ELSE "failed"
  /\ queue' = IF result[p] = "ok" THEN queue ELSE << >>
  /\ StoreUnchanged
  /\ UNCHANGED << arrived, new_queue, sm, dest, result, message_timeout, runs, sends,
                  drained, attempted, delivered, dropped, tried, pushed >>

\* An age test that also drops a message whose age equals the timeout.
Expired_at_timeout(message, t, timeout) == t - message.timestamp >= timeout

\* The age test of process_queue: now - timestamp > message_timeout.  (The
\* clock never runs backwards here, so no timestamp is ahead of it and the
\* to_std().unwrap() on the age cannot fail.)
Expired(message, t, timeout) == t - message.timestamp > timeout

\* An entry put back with the time of the failed attempt.
Requeued_restamped(message, t) == [message EXCEPT !.timestamp = t]

\* process_queue: new_queue.push(message), the entry as it was popped.
Requeued(message, t) == message

\* process_queue: one turn of `while let Some(message) = queue.pop()`: the
\* message is dropped if expired, else try_send_message is called and the
\* message goes to new_queue if the attempt fails.
process_queue_pop(p) ==
  /\ p = QueueTask
  /\ pq = "loop" /\ queue # << >>
  /\ LET message == queue[Len(queue)]
     IN /\ queue' = SubSeq(queue, 1, Len(queue) - 1)
        /\ IF Expired(message, now, message_timeout)
           THEN /\ dropped' = dropped \cup {message}
                /\ UNCHANGED << new_queue, attempted, delivered >>
           ELSE /\ attempted' = Append(attempted, message)
                /\ \E sent \in BOOLEAN :
                     /\ new_queue' = IF sent THEN new_queue
                                     ELSE Append(new_queue, Requeued(message, now))
                     /\ delivered' = IF sent THEN delivered \cup {message} ELSE delivered
                /\ UNCHANGED dropped
  /\ StoreUnchanged
  /\ UNCHANGED << arrived, pq, sm, dest, result, message_timeout, runs, sends, drained,
                  tried, pushed >>

\* process_queue: the loop is over, persistent_state.update(write back) starts.
process_queue_write_back(p) ==
  /\ p = QueueTask
  /\ pq = "loop" /\ queue = << >>
  /\ CallOf(p, {[kind |-> "update", f |-> "write_back", arg |-> new_queue]}, MaxCallsQueue)
  /\ pq' = "write_back"
  /\ result' = [result EXCEPT ![p] = "none"]
  /\ UNCHANGED << arrived, queue, new_queue, sm, dest, message_timeout, runs, sends,
                  drained, attempted, delivered, dropped, tried, pushed >>

\* process_queue returns: Ok(()) or the error of the second update.
process_queue_return(p) ==
  /\ p = QueueTask
  /\ pq = "write_back" /\ pc[p] = "idle" /\ result[p] # "none"
  /\ pq' = IF result[p] = "ok" THEN "done" ELSE "failed"
  /\ StoreUnchanged
  /\ UNCHANGED << arrived, queue, new_queue, sm, dest, result, message_timeout, runs, sends,
                  drained, attempted, delivered, dropped, tried, pushed >>

\* send_message is called with chat_ids and a text.
send_message(p) ==
  /\ p = SendTask
  /\ sm \in {"idle", "done"}
  /\ sends < MaxSends
  /\ sends' = sends + 1
  /\ sm' = "try"
  /\ dest' = 1
  /\ tried' = << >>
  /\ pushed' = << >>
  /\ StoreUnchanged
  /\ UNCHANGED << arrived, pq, queue, new_queue, result, message_timeout, runs,
                  drained, attempted, delivered, dropped >>

\* send_message: try_send_message for the chat succeeds; on to the next chat.
send_message_sent(p) ==
  /\ p = SendTask
  /\ sm = "try" /\ dest <= Len(ChatIds)
  /\ tried' = Append(tried, [chat_id |-> ChatIds[dest], sent |-> TRUE])
  /\ dest' = dest + 1
  /\ StoreUnchanged
  /\ UNCHANGED << arrived, pq, queue, new_queue, sm, result, message_timeout, runs, sends,
                  drained, attempted, delivered, dropped, pushed >>

\* send_message: try_send_message fails; persistent_state.update(push) starts.
send_message_failed(p) ==
  /\ p = SendTask
  /\ sm = "try" /\ dest <= Len(ChatIds)
  /\ tried' = Append(tried, [chat_id |-> ChatIds[dest], sent |-> FALSE])
  /\ CallOf(p, {[kind |-> "update", f |-> "push", chat |-> ChatIds[dest],
                 text |-> AlertText]}, MaxCallsQueue)
  /\ sm' = "push"
  /\ result' = [result EXCEPT ![p] = "none"]
  /\ UNCHANGED << arrived, pq, queue, new_queue, dest, message_timeout, runs, sends,
                  drained, attempted, delivered, dropped, pushed >>

\* send_message: the update has returned; its error is logged only.
send_message_pushed(p) ==
  /\ p = SendTask
  /\ sm = "push" /\ pc[p] = "idle" /\ result[p] # "none"
  /\ sm' = "try"
  /\ dest' = dest + 1
  /\ StoreUnchanged
  /\ UNCHANGED << arrived, pq, queue, new_queue, result, message_timeout, runs, sends,
                  drained, attempted, delivered, dropped, tried, pushed >>

\* send_message returns (no value) after the last chat.
send_message_return(p) ==
  /\ p = SendTask
  /\ sm = "try" /\ dest > Len(ChatIds)
  /\ sm' = "done"
  /\ StoreUnchanged
  /\ UNCHANGED << arrived, pq, queue, new_queue, dest, result, message_timeout, runs, sends,
                  drained, attempted, delivered, dropped, tried, pushed >>

\* process_queue is between its two updates: the drain has returned and the
\* write back has not returned.
BetweenUpdates ==
  \/ pq = "drain" /\ pc[QueueTask] = "idle"
  \/ pq = "loop"
  \/ pq = "write_back" /\ pc[QueueTask] # "idle"

\* What a statement of a closure gives its caller: the drain's clone becomes
\* process_queue's queue; a push of send_message is remembered.
Mutated(p) ==
  LET s == BodyOf(call[p], now)[idx[p]]
  IN /\ queue' = IF s.op = "take" THEN state.telegram_queue ELSE queue
     /\ drained' = IF s.op = "take" THEN state.telegram_queue ELSE drained
     /\ pushed' = IF s.op = "push" THEN Append(pushed, s.val) ELSE pushed
     /\ arrived' = IF s.op = "push" /\ BetweenUpdates
                   THEN arrived \cup {s.val} ELSE arrived
     /\ UNCHANGED << pq, new_queue, sm, dest, result, message_timeout, runs, sends,
                     attempted, delivered, dropped, tried >>

\* What update returns to its caller: Ok or the error of the write.
Returned(p, r) ==
  /\ result' = [result EXCEPT ![p] = r]
  /\ UNCHANGED << arrived, pq, queue, new_queue, sm, dest, message_timeout, runs, sends,
                  drained, attempted, delivered, dropped, tried, pushed >>

NextQueue ==
  \/ \E p \in Tasks : process_queue(p) /\ UNCHANGED othervars
  \/ \E p \in Tasks : process_queue_drained(p) /\ UNCHANGED othervars
  \/ \E p \in Tasks : process_queue_pop(p) /\ UNCHANGED othervars
  \/ \E p \in Tasks : process_queue_write_back(p) /\ UNCHANGED othervars
  \/ \E p \in Tasks : process_queue_return(p) /\ UNCHANGED othervars
  \/ \E p \in Tasks : send_message(p) /\ UNCHANGED othervars
  \/ \E p \in Tasks : send_message_sent(p) /\ UNCHANGED othervars
  \/ \E p \in Tasks : send_message_failed(p) /\ UNCHANGED othervars
  \/ \E p \in Tasks : send_message_pushed(p) /\ UNCHANGED othervars
  \/ \E p \in Tasks : send_message_return(p) /\ UNCHANGED othervars
  \/ \E p \in Tasks : is_changed_on_disk(p) /\ UNCHANGED jvars /\ UNCHANGED othervars
  \/ \E p \in Tasks : reload_load(p) /\ UNCHANGED jvars /\ UNCHANGED othervars
  \/ \E p \in Tasks : reload_assign(p) /\ UNCHANGED jvars /\ UNCHANGED othervars
  \/ \E p \in Tasks : update_lock(p) /\ UNCHANGED jvars /\ UNCHANGED othervars
  \/ \E p \in Tasks : update_mutate(p) /\ Mutated(p) /\ UNCHANGED othervars
  \/ \E p \in Tasks : update_write_open(p) /\ UNCHANGED jvars /\ UNCHANGED othervars
  \/ \E p \in Tasks : update_write_open_fails(p) /\ Returned(p, "err") /\ UNCHANGED othervars
  \/ \E p \in Tasks : update_write_all(p) /\ Returned(p, "ok") /\ UNCHANGED othervars
  \/ \E p \in Tasks : update_write_all_fails(p) /\ Returned(p, "err") /\ UNCHANGED othervars
  \/ Tick /\ UNCHANGED jvars /\ UNCHANGED othervars

SpecQueue == InitQueue /\ [][NextQueue]_vars

\* ------------------------------------------------------------ get_balance
\* The balances get_balance_once can read.
Balances == {1, 2}

Ok(v) == [ok |-> TRUE, v |-> v]
Err == [ok |-> FALSE, v |-> 0]

\* The other variables a step of get_balance leaves alone.
OthersUnchanged ==
  UNCHANGED << state, stateLock, last_read_time, file, now, pc, call, idx, meta,
               loaded, calls, enqueues, externals, restarts, snapshot, ideal,
               lastGet, failed, fresh, reloaded, jvars, dvars, pvars, cvars, svars >>

\* get_balance is called: let mut balance = None.
get_balance ==
  /\ gb \in {"idle", "done"}
  /\ invocations < MaxInvocations
  /\ invocations' = invocations + 1
  /\ gb' = "loop"
  /\ attempt' = 0
  /\ balance' = None
  /\ outcomes' = << >>
  /\ restarted' = 0
  /\ restart_ok' = TRUE
  /\ OthersUnchanged
  /\ UNCHANGED << get_balance_retry_count, returned >>

\* A loop that makes one attempt more than configured.
InRange_inclusive(i, n) == i <= n

\* for _ in 0..self.get_balance_retry_count
InRange(i, n) == i < n

\* An attempt that succeeds and is followed by the next attempt.
get_balance_once_ok_no_break ==
  /\ gb = "loop" /\ InRange(attempt, get_balance_retry_count)
  /\ \E v \in Balances :
       /\ balance' = Some(v)
       /\ outcomes' = Append(outcomes, Ok(v))
  /\ gb' = "sleep"
  /\ OthersUnchanged
  /\ UNCHANGED << get_balance_retry_count, attempt, returned, invocations,
                  restarted, restart_ok >>

\* get_balance_once returns Ok(v): balance = Some(v); break.
get_balance_once_ok ==
  /\ gb = "loop" /\ InRange(attempt, get_balance_retry_count)
  /\ \E v \in Balances :
       /\ balance' = Some(v)
       /\ outcomes' = Append(outcomes, Ok(v))
  /\ gb' = "restart"
  /\ OthersUnchanged
  /\ UNCHANGED << get_balance_retry_count, attempt, returned, invocations,
                  restarted, restart_ok >>

\* get_balance_once returns an error: it is logged, the sleep follows.
get_balance_once_err ==
  /\ gb = "loop" /\ InRange(attempt, get_balance_retry_count)
  /\ outcomes' = Append(outcomes, Err)
  /\ gb' = "sleep"
  /\ OthersUnchanged
  /\ UNCHANGED << get_balance_retry_count, attempt, balance, returned, invocations,
                  restarted, restart_ok >>

\* tokio::time::sleep(get_balance_retry_interval), then the next turn.
get_balance_sleep ==
  /\ gb = "sleep"
  /\ attempt' = attempt + 1
  /\ gb' = "loop"
  /\ OthersUnchanged
  /\ UNCHANGED << get_balance_retry_count, balance, returned, invocations,
                  outcomes, restarted, restart_ok >>

\* A loop that, once out of attempts, returns without the restart.
get_balance_exhausted_no_restart ==
  /\ gb = "loop" /\ ~InRange(attempt, get_balance_retry_count)
  /\ gb' = "return"
  /\ OthersUnchanged
  /\ UNCHANGED << get_balance_retry_count, attempt, balance, returned, invocations,
                  outcomes, restarted, restart_ok >>

\* The range is used up: the loop ends.
get_balance_exhausted ==
  /\ gb = "loop" /\ ~InRange(attempt, get_balance_retry_count)
  /\ gb' = "restart"
  /\ OthersUnchanged
  /\ UNCHANGED << get_balance_retry_count, attempt, balance, returned, invocations,
                  outcomes, restarted, restart_ok >>

\* bash -c restart_lte_command: run after the loop; an error is logged only.
restart_lte ==
  /\ gb = "restart"
  /\ restarted' = restarted + 1
  /\ restart_ok' \in BOOLEAN
  /\ gb' = "return"
  /\ OthersUnchanged
  /\ UNCHANGED << get_balance_retry_count, attempt, balance, returned, invocations,
                  outcomes >>

\* balance.ok_or_else(|| anyhow!("Failed to get balance"))
get_balance_return ==
  /\ gb = "return"
  /\ returned' = Some(IF balance = None THEN Err ELSE Ok(balance[1]))
  /\ gb' = "done"
  /\ OthersUnchanged
  /\ UNCHANGED << get_balance_retry_count, attempt, balance, invocations,
                  outcomes, restarted, restart_ok >>

InitBalance ==
  /\ StoreInit /\ file = MissingFile
  /\ JobsInit /\ message_timeout = 0
  /\ BalanceInit /\ get_balance_retry_count \in 0..MaxRetryCount
  /\ NoDecode /\ PingInit /\ CronInit /\ telegram = TRUE

NextBalance ==
  \/ get_balance
  \/ get_balance_once_ok
  \/ get_balance_once_err
  \/ get_balance_sleep
  \/ get_balance_exhausted
  \/ restart_lte
  \/ get_balance_return

SpecBalance == InitBalance /\ [][NextBalance]_vars

\* ------------------------------------------------- balance decoding
\* Texts are sequences of Unicode scalar values, hex payloads sequences of
\* ASCII characters (the modem's answer is ASCII).

\* The input and the expected output of test_ucs2_decoder.
test_ucs2_decoder_input ==
  << "0", "4", "1", "1", "0", "4", "3", "0", "0", "4", "3", "b", "0", "4",
    "3", "0", "0", "4", "3", "d", "0", "4", "4", "1", "0", "0", "2", "0",
    "0", "0", "3", "5", "0", "0", "3", "4", "0", "0", "3", "8", "0", "0",
    "2", "e", "0", "0", "3", "0", "0", "0", "3", "8", "0", "0", "2", "0",
    "0", "4", "4", "1", "0", "0", "2", "e", "0", "0", "2", "0", "0", "0",
    "3", "1", "0", "0", "3", "0", "0", "0", "3", "0", "0", "0", "3", "0",
    "0", "0", "2", "0", "0", "4", "3", "f", "0", "4", "4", "1", "0", "4",
    "3", "8", "0", "4", "4", "5", "0", "4", "3", "e", "0", "4", "3", "b",
    "0", "4", "3", "e", "0", "4", "3", "3", "0", "4", "3", "8", "0", "4",
    "4", "7", "0", "4", "3", "5", "0", "4", "4", "1", "0", "4", "3", "a",
    "0", "4", "3", "8", "0", "4", "4", "5", "0", "0", "2", "0", "0", "4",
    "4", "2", "0", "4", "3", "5", "0", "4", "4", "1", "0", "4", "4", "2",
    "0", "4", "3", "e", "0", "4", "3", "2", "0", "0", "2", "0", "0", "0",
    "2", "a", "0", "0", "3", "3", "0", "0", "3", "4", "0", "0", "3", "1",
    "0", "0", "2", "3", "0", "0", "2", "0", "0", "0", "3", "5", "0", "0",
    "2", "0", "0", "4", "4", "1", "0", "4", "3", "e", "0", "4", "3", "c",
    "0", "0", "2", "0", "0", "4", "3", "2", "0", "0", "2", "0", "0", "4",
    "3", "4", "0", "4", "3", "5", "0", "4", "3", "d", "0", "4", "4", "c" >>

test_ucs2_decoder_output ==
  << 1041, 1072, 1083, 1072, 1085, 1089, 32, 53, 52, 56, 46, 48, 56, 32,
    1089, 46, 32, 49, 48, 48, 48, 32, 1087, 1089, 1080, 1093, 1086, 1083,
    1086, 1075, 1080, 1095, 1077, 1089, 1082, 1080, 1093, 32, 1090, 1077,
    1089, 1090, 1086, 1074, 32, 42, 51, 52, 49, 35, 32, 53, 32, 1089, 1086,
    1084, 32, 1074, 32, 1076, 1077, 1085, 1100 >>

\* The input and the expected output of test_utf8_decoder.
test_utf8_decoder_input ==
  << "5", "9", "6", "f", "7", "5", "2", "0", "6", "8", "6", "1", "7", "6",
    "6", "5", "2", "0", "3", "3", "3", "9", "3", "8", "2", "e", "3", "0",
    "3", "8", "2", "0", "7", "3", "6", "f", "6", "d", "2", "e", "2", "0",
    "5", "4", "6", "f", "7", "0", "2", "0", "7", "5", "7", "0", "2", "0",
    "7", "9", "6", "f", "7", "5", "7", "2", "2", "0", "6", "2", "6", "1",
    "6", "c", "6", "1", "6", "e", "6", "3", "6", "5", "2", "0", "7", "7",
    "6", "9", "7", "4", "6", "8", "2", "0", "4", "f", "2", "1", "4", "2",
    "6", "f", "6", "e", "7", "5", "7", "3", "6", "5", "7", "3" >>

test_utf8_decoder_output ==
  << 89, 111, 117, 32, 104, 97, 118, 101, 32, 51, 57, 56, 46, 48, 56, 32,
    115, 111, 109, 46, 32, 84, 111, 112, 32, 117, 112, 32, 121, 111, 117,
    114, 32, 98, 97, 108, 97, 110, 99, 101, 32, 119, 105, 116, 104, 32, 79,
    33, 66, 111, 110, 117, 115, 101, 115 >>

\* Other payloads the modem can answer with.
OtherPayloads ==
  { \* UCS-2 of "Баланс ": known prefix, no second token
    << "0", "4", "1", "1", "0", "4", "3", "0", "0", "4", "3", "b", "0", "4",
      "3", "0", "0", "4", "3", "d", "0", "4", "4", "1", "0", "0", "2", "0" >>,
    \* UCS-2 of "Баланс много": the token is not a number
    << "0", "4", "1", "1", "0", "4", "3", "0", "0", "4", "3", "b", "0", "4",
      "3", "0", "0", "4", "3", "d", "0", "4", "4", "1", "0", "0", "2", "0",
      "0", "4", "3", "c", "0", "4", "3", "d", "0", "4", "3", "e", "0", "4",
      "3", "3", "0", "4", "3", "e" >>,
    \* UCS-2 of "You have 12.5 som"
    << "0", "0", "5", "9", "0", "0", "6", "f", "0", "0", "7", "5", "0", "0",
      "2", "0", "0", "0", "6", "8", "0", "0", "6", "1", "0", "0", "7", "6",
      "0", "0", "6", "5", "0", "0", "2", "0", "0", "0", "3", "1", "0", "0",
      "3", "2", "0", "0", "2", "e", "0", "0", "3", "5", "0", "0", "2", "0",
      "0", "0", "7", "3", "0", "0", "6", "f", "0", "0", "6", "d" >>,
    \* UTF-8 of "Баланс 7.25 с."
    << "d", "0", "9", "1", "d", "0", "b", "0", "d", "0", "b", "b", "d", "0",
      "b", "0", "d", "0", "b", "d", "d", "1", "8", "1", "2", "0", "3", "7",
      "2", "e", "3", "2", "3", "5", "2", "0", "d", "1", "8", "1", "2", "e" >>,
    \* UTF-8 of "You have no money": the token is not a number
    << "5", "9", "6", "f", "7", "5", "2", "0", "6", "8", "6", "1", "7", "6",
      "6", "5", "2", "0", "6", "e", "6", "f", "2", "0", "6", "d", "6", "f",
      "6", "e", "6", "5", "7", "9" >>,
    \* UTF-8 of "You have\t-1e1"
    << "5", "9", "6", "f", "7", "5", "2", "0", "6", "8", "6", "1", "7", "6",
      "6", "5", "2", "0", "0", "9", "2", "d", "3", "1", "6", "5", "3", "1" >>,
    \* UTF-8 of "Hello 1 2 3": no known prefix
    << "4", "8", "6", "5", "6", "c", "6", "c", "6", "f", "2", "0", "3", "1",
      "2", "0", "3", "2", "2", "0", "3", "3" >>,
    \* a character that is no hex digit
    << "5", "9", "z", "z" >>,
    \* a lone UTF-16 surrogate, which is also a truncated UTF-8 sequence
    << "d", "8", "0", "0" >>,
    \* upper case digits, and "+b", which from_str_radix reads as 0x0b
    << "5", "9", "6", "F", "7", "5", "2", "0", "6", "8", "6", "1", "7", "6",
      "6", "5", "2", "0", "+", "b", "3", "9" >> }

\* u8::from_str_radix(s, 16) on a digit: its value, or -1.
HexDigits ==
  [c \in {"0", "1", "2", "3", "4", "5", "6", "7", "8", "9", "a", "b", "c", "d", "e", "f",
         "A", "B", "C", "D", "E", "F"} |->
     CASE c = "0" -> 0 [] c = "1" -> 1 [] c = "2" -> 2 [] c = "3" -> 3
       [] c = "4" -> 4 [] c = "5" -> 5 [] c = "6" -> 6 [] c = "7" -> 7
       [] c = "8" -> 8 [] c = "9" -> 9
       [] c \in {"a", "A"} -> 10 [] c \in {"b", "B"} -> 11
       [] c \in {"c", "C"} -> 12 [] c \in {"d", "D"} -> 13
       [] c \in {"e", "E"} -> 14 [] c \in {"f", "F"} -> 15]

HexValue(c) == IF c \in DOMAIN HexDigits THEN HexDigits[c] ELSE -1

\* u8::from_str_radix(&hex[i..i + 2], 16): two digits, or a plus sign and one
\* digit; -1 stands for the error.
from_str_radix(c1, c2) ==
  IF HexValue(c2) < 0 THEN -1
  ELSE IF c1 = "+" THEN HexValue(c2)
  ELSE IF HexValue(c1) < 0 THEN -1
  ELSE 16 * HexValue(c1) + HexValue(c2)

\* The result of a decoder: a text, an error, or a panic.
Text(t) == [ok |-> TRUE, text |-> t, why |-> "none"]
DecodeError(why) == [ok |-> FALSE, text |-> << >>, why |-> why]

\* (0..hex.len()).step_by(2).map(|i| u8::from_str_radix(&hex[i..i + 2], 16)),
\* on a string of even length.
HexBytes(hex) == [i \in 1..(Len(hex) \div 2) |->
                    from_str_radix(hex[2 * i - 1], hex[2 * i])]

\* hex.truncate(hex.len() - hex.len() % n)
Cut(hex, n) == SubSeq(hex, 1, Len(hex) - (Len(hex) % n))

\* The positions 1..n in order.
Positions(n) == [i \in 1..n |-> i]

IsHighSurrogate(u) == u >= 55296 /\ u <= 56319
IsLowSurrogate(u) == u >= 56320 /\ u <= 57343

\* String::from_utf16: a surrogate pair is one scalar value, a surrogate
\* that is not part of a pair is an error.
from_utf16(units) ==
  LET n == Len(units)
      SecondHalf(i) == IsLowSurrogate(units[i]) /\ i > 1 /\ IsHighSurrogate(units[i - 1])
      Lone(i) == \/ IsLowSurrogate(units[i]) /\ ~SecondHalf(i)
                 \/ IsHighSurrogate(units[i])
                      /\ ~(i < n /\ IsLowSurrogate(units[i + 1]))
      starts == SelectSeq(Positions(n), LAMBDA i : ~SecondHalf(i))
      Scalar(i) == IF IsHighSurrogate(units[i])
                     THEN 65536 + (units[i] - 55296) * 1024 + (units[i + 1] - 56320)
                     ELSE units[i]
  IN IF \E i \in 1..n : Lone(i) THEN DecodeError("utf16")
     ELSE Text([k \in 1..Len(starts) |-> Scalar(starts[k])])

\* A continuation byte of UTF-8.
IsCont(bytes, i) == i <= Len(bytes) /\ bytes[i] >= 128 /\ bytes[i] <= 191
InByteRange(bytes, i, lo, hi) == i <= Len(bytes) /\ bytes[i] >= lo /\ bytes[i] <= hi

\* Length of the well-formed UTF-8 sequence that starts at i, or 0.
Utf8Width(bytes, i) ==
  LET b == bytes[i]
  IN IF b < 128 THEN 1
     ELSE IF b >= 194 /\ b <= 223 /\ IsCont(bytes, i + 1) THEN 2
     ELSE IF b = 224 /\ InByteRange(bytes, i + 1, 160, 191) /\ IsCont(bytes, i + 2) THEN 3
     ELSE IF b = 237 /\ InByteRange(bytes, i + 1, 128, 159) /\ IsCont(bytes, i + 2) THEN 3
     ELSE IF b >= 225 /\ b <= 239 /\ b # 237 /\ IsCont(bytes, i + 1) /\ IsCont(bytes, i + 2)
       THEN 3
     ELSE IF b = 240 /\ InByteRange(bytes, i + 1, 144, 191) /\ IsCont(bytes, i + 2)
                     /\ IsCont(bytes, i + 3) THEN 4
     ELSE IF b >= 241 /\ b <= 243 /\ IsCont(bytes, i + 1) /\ IsCont(bytes, i + 2)
                     /\ IsCont(bytes, i + 3) THEN 4
     ELSE IF b = 244 /\ InByteRange(bytes, i + 1, 128, 143) /\ IsCont(bytes, i + 2)
                     /\ IsCont(bytes, i + 3) THEN 4
     ELSE 0

\* The scalar value of the sequence of width w that starts at i.
Utf8Scalar(bytes, i, w) ==
  CASE w = 1 -> bytes[i]
    [] w = 2 -> (bytes[i] - 192) * 64 + (bytes[i + 1] - 128)
    [] w = 3 -> (bytes[i] - 224) * 4096 + (bytes[i + 1] - 128) * 64 + (bytes[i + 2] - 128)
    [] w = 4 -> (bytes[i] - 240) * 262144 + (bytes[i + 1] - 128) * 4096
                  + (bytes[i + 2] - 128) * 64 + (bytes[i + 3] - 128)

\* String::from_utf8: every byte that is no continuation byte starts a
\* well-formed sequence, and the byte after that sequence starts the next.
from_utf8(bytes) ==
  LET n == Len(bytes)
      Starts(i) == ~(bytes[i] >= 128 /\ bytes[i] <= 191)
      WellFormed(i) == LET w == Utf8Width(bytes, i)
                       IN w > 0 /\ (i + w > n \/ Starts(i + w))
      starts == SelectSeq(Positions(n), Starts)
  IN IF n > 0 /\ ~Starts(1) THEN DecodeError("utf8")
     ELSE IF \E i \in 1..n : Starts(i) /\ ~WellFormed(i) THEN DecodeError("utf8")
     ELSE Text([k \in 1..Len(starts) |->
                  Utf8Scalar(bytes, starts[k], Utf8Width(bytes, starts[k]))])

\* A cut to whole bytes only.
CutToUnits_bytes(hex) == Cut(hex, 2)

\* decode_ucs2_in_hex: the string is cut to whole code units of 4 digits.
CutToUnits(hex) == Cut(hex, 4)

\* decode_ucs2_in_hex: bytes.chunks(2) and u16::from_be_bytes([chunk[0],
\* chunk[1]]); a last chunk of one byte makes chunk[1] panic.
decode_ucs2_in_hex(hex) ==
  LET bytes == HexBytes(CutToUnits(hex))
  IN IF \E i \in 1..Len(bytes) : bytes[i] = -1 THEN DecodeError("hex")
     ELSE IF Len(bytes) % 2 = 1 THEN DecodeError("panic")
     ELSE from_utf16([i \in 1..(Len(bytes) \div 2) |->
                        256 * bytes[2 * i - 1] + bytes[2 * i]])

\* decode_utf8_in_hex: the string is cut to whole bytes of 2 digits.
decode_utf8_in_hex(hex) ==
  LET bytes == HexBytes(Cut(hex, 2))
  IN IF \E i \in 1..Len(bytes) : bytes[i] = -1 THEN DecodeError("hex")
     ELSE from_utf8(bytes)

\* char::is_whitespace
WhiteSpace == {9, 10, 11, 12, 13, 32, 133, 160, 5760, 8232, 8233, 8239, 8287, 12288}
                \cup (8192..8202)

\* str::split_whitespace: the maximal runs of characters that are no white space.
split_whitespace(text) ==
  LET n == Len(text)
      Blank(i) == text[i] \in WhiteSpace
      starts == SelectSeq(Positions(n), LAMBDA i : ~Blank(i) /\ (i = 1 \/ Blank(i - 1)))
      End(i) == CHOOSE j \in i..n : (j = n \/ Blank(j + 1)) /\ \A l \in i..j : ~Blank(l)
  IN [k \in 1..Len(starts) |-> SubSeq(text, starts[k], End(starts[k]))]

\* str::starts_with
starts_with(text, prefix) ==
  Len(text) >= Len(prefix) /\ SubSeq(text, 1, Len(prefix)) = prefix

\* "Баланс " and "You have "
PrefixBalans == << 1041, 1072, 1083, 1072, 1085, 1089, 32 >>
PrefixYouHave == << 89, 111, 117, 32, 104, 97, 118, 101, 32 >>

IsDigit(c) == c >= 48 /\ c <= 57
AllDigits(s) == \A i \in 1..Len(s) : IsDigit(s[i])

RECURSIVE DigitsValue(_)
DigitsValue(s) ==
  IF s = << >> THEN 0 ELSE 10 * DigitsValue(SubSeq(s, 1, Len(s) - 1)) + (s[Len(s)] - 48)

\* ASCII lower case of a token.
Lower(s) == [i \in 1..Len(s) |-> IF s[i] >= 65 /\ s[i] <= 90 THEN s[i] + 32 ELSE s[i]]

\* A decimal number m * 10^(-scale), without trailing zeros in m.
RECURSIVE Decimal(_, _)
Decimal(m, scale) ==
  IF m = 0 THEN [kind |-> "finite", m |-> 0, scale |-> 0]
  ELSE IF m % 10 = 0 THEN Decimal(m \div 10, scale - 1)
  ELSE [kind |-> "finite", m |-> m, scale |-> scale]

NotANumber == [kind |-> "error", m |-> 0, scale |-> 0]
Special(k) == [kind |-> k, m |-> 0, scale |-> 0]

\* Position of the first character of s that is in set, or 0.
First(s, set) ==
  IF \E i \in 1..Len(s) : s[i] \in set
    THEN CHOOSE i \in 1..Len(s) : s[i] \in set /\ \A j \in 1..(i - 1) : s[j] \notin set
    ELSE 0

\* <f64 as FromStr>::from_str: an optional sign, then inf, infinity or nan in
\* any case, or digits with an optional point and an optional exponent.  The
\* value is kept as the decimal that was written.
parse_f64(token) ==
  LET signed == token # << >> /\ token[1] \in {43, 45}
      neg == signed /\ token[1] = 45
      body == IF signed THEN Tail(token) ELSE token
      e == First(body, {69, 101})
      mant == IF e = 0 THEN body ELSE SubSeq(body, 1, e - 1)
      exp == IF e = 0 THEN << >> ELSE SubSeq(body, e + 1, Len(body))
      expSigned == exp # << >> /\ exp[1] \in {43, 45}
      expDigits == IF expSigned THEN Tail(exp) ELSE exp
      expValue == IF e = 0 THEN 0
                  ELSE IF expSigned /\ exp[1] = 45 THEN 0 - DigitsValue(expDigits)
                  ELSE DigitsValue(expDigits)
      point == First(mant, {46})
      int == IF point = 0 THEN mant ELSE SubSeq(mant, 1, point - 1)
      frac == IF point = 0 THEN << >> ELSE SubSeq(mant, point + 1, Len(mant))
      value == DigitsValue(int \o frac)
  IN IF Lower(body) \in {<< 105, 110, 102 >>, << 105, 110, 102, 105, 110, 105, 116, 121 >>}
       THEN Special(IF neg THEN "-inf" ELSE "inf")
     ELSE IF Lower(body) = << 110, 97, 110 >> THEN Special("nan")
     ELSE IF ~AllDigits(int) \/ ~AllDigits(frac) \/ int \o frac = << >> THEN NotANumber
     ELSE IF e # 0 /\ (expDigits = << >> \/ ~AllDigits(expDigits)) THEN NotANumber
     ELSE Decimal(IF neg THEN 0 - value ELSE value, Len(frac) - expValue)

\* The result of get_balance_once: a balance or an error.
Balance(v) == [ok |-> TRUE, v |-> v, why |-> "none"]
NoBalance(why) == [ok |-> FALSE, v |-> NotANumber, why |-> why]

\* get_balance_once, lines 95-104: the decodings that succeeded, UCS-2 first.
message_variants(message) ==
  LET first == decode_ucs2_in_hex(message)
      second == decode_utf8_in_hex(message)
  IN (IF first.ok THEN << first.text >> ELSE << >>)
       \o (IF second.ok THEN << second.text >> ELSE << >>)

\* A selection that takes the second token of every known message.
TokenPosition_second(text) ==
  IF starts_with(text, PrefixBalans) \/ starts_with(text, PrefixYouHave) THEN 2 ELSE 0

\* The token get_balance_once selects in a decoded message: position 2 after
\* "Баланс ", position 3 after "You have ", 0 for any other message.
TokenPosition(text) ==
  IF starts_with(text, PrefixBalans) THEN 2
  ELSE IF starts_with(text, PrefixYouHave) THEN 3
  ELSE 0

\* A loop that goes on to the next variant when the token is missing.
MissingToken_continue == "continue"

\* `.nth(..).ok_or_else(..)?` in the loop: a missing token returns the error
\* from get_balance_once.
MissingToken == "return"

\* get_balance_once, lines 105-139: the loop over the variants from the i-th
\* on; `seen` counts the variants the loop has looked at.
RECURSIVE extract_balance(_, _)
extract_balance(variants, i) ==
  IF i > Len(variants) THEN [r |-> NoBalance("no variant"), seen |-> i - 1]
  ELSE LET text == variants[i]
           pos == TokenPosition(text)
           words == split_whitespace(text)
       IN IF pos = 0 THEN extract_balance(variants, i + 1)
          ELSE IF Len(words) < pos
            THEN (IF MissingToken = "return"
                    THEN [r |-> NoBalance("no token"), seen |-> i]
                    ELSE extract_balance(variants, i + 1))
          ELSE LET v == parse_f64(words[pos])
               IN IF v.kind # "error" THEN [r |-> Balance(v), seen |-> i]
                  ELSE extract_balance(variants, i + 1)

\* Every string hex[..n].
Prefixes(hex) == {SubSeq(hex, 1, n) : n \in 0..Len(hex)}

\* The +CUSD payloads the checks run on.
Payloads ==
  Prefixes(test_ucs2_decoder_input) \cup Prefixes(test_utf8_decoder_input)
    \cup OtherPayloads

\* get_balance_once is given a payload: nothing is decoded yet.
DecodeInit ==
  /\ gbo = "start"
  /\ ucs2 = DecodeError("none")
  /\ utf8 = DecodeError("none")
  /\ once = NoBalance("none")
  /\ seen = 0

\* The variables of the other parts that a step of the decoding leaves alone.
DecodeOthersUnchanged ==
  UNCHANGED << state, stateLock, last_read_time, file, now, pc, call, idx, meta,
               loaded, calls, enqueues, externals, restarts, snapshot, ideal,
               lastGet, failed, fresh, reloaded, jvars, bvars, pvars, cvars, svars >>

\* get_balance_once, line 95: both decoders run on the payload.
get_balance_once_decode ==
  /\ gbo = "start"
  /\ ucs2' = decode_ucs2_in_hex(payload)
  /\ utf8' = decode_utf8_in_hex(payload)
  /\ gbo' = "decoded"
  /\ DecodeOthersUnchanged
  /\ UNCHANGED << payload, once, seen >>

\* get_balance_once, lines 96-139: the variants are examined in turn.
get_balance_once_extract ==
  /\ gbo = "decoded"
  /\ LET x == extract_balance(message_variants(payload), 1)
     IN once' = x.r /\ seen' = x.seen
  /\ gbo' = "done"
  /\ DecodeOthersUnchanged
  /\ UNCHANGED << payload, ucs2, utf8 >>

InitDecode ==
  /\ StoreInit /\ file = MissingFile
  /\ JobsInit /\ message_timeout = 0
  /\ BalanceInit /\ get_balance_retry_count = MaxRetryCount
  /\ DecodeInit /\ payload \in Payloads
  /\ PingInit /\ CronInit /\ telegram = TRUE

NextDecode ==
  \/ get_balance_once_decode
  \/ get_balance_once_extract

SpecDecode == InitDecode /\ [][NextDecode]_vars

\* ------------------------------------------------------------ the ping job
PingTask == "t1"

\* pinger.timeout(Duration::from_secs(10)): the time a probe waits for its reply.
PingTimeout == 10
\* tokio::time::sleep(Duration::from_secs(1)) after a failed probe.
PingSleep == 1
\* for seq in 0..3
PingProbes == 3

\* Seconds a probe can take: a reply comes at once or late; a failure is an
\* error at once or the timeout.
ReplyTimes == {0, 5}
FailureTimes == {0, PingTimeout}

\* What a step of the ping job outside the store leaves alone.
PingFrame ==
  /\ StoreUnchanged
  /\ UNCHANGED << jvars, bvars, dvars, cvars, svars >>

\* The job fires: state1.lock().await.config.ping.clone(), the guard drops at
\* the end of the statement.
ping_job(p) ==
  /\ p = PingTask
  /\ ping \in {"idle", "done"}
  /\ pings < MaxPingRuns
  /\ mutex = NoTask
  /\ pings' = pings + 1
  /\ ping' = "init"
  /\ seq' = 0
  /\ success' = FALSE
  /\ elapsed' = 0
  /\ probes' = << >>
  /\ slept' = 0
  /\ PingFrame
  /\ UNCHANGED mutex

\* surge_ping::Client::new fails: return false.
ping_client_fails(p) ==
  /\ p = PingTask
  /\ ping = "init"
  /\ ping' = "commit"
  /\ PingFrame
  /\ UNCHANGED << mutex, seq, success, pings, elapsed, probes, slept >>

\* The client and the pinger are made: let mut success = false.
ping_client(p) ==
  /\ p = PingTask
  /\ ping = "init"
  /\ ping' = "probe"
  /\ PingFrame
  /\ UNCHANGED << mutex, seq, success, pings, elapsed, probes, slept >>

\* pinger.ping(..).await.is_ok(): success = true; break.
ping_reply(p) ==
  /\ p = PingTask
  /\ ping = "probe" /\ seq < PingProbes
  /\ \E d \in ReplyTimes : elapsed' = elapsed + d
  /\ probes' = Append(probes, TRUE)
  /\ success' = TRUE
  /\ ping' = "commit"
  /\ PingFrame
  /\ UNCHANGED << mutex, seq, pings, slept >>

\* pinger.ping(..).await is an error (a timeout or a send error).
ping_no_reply(p) ==
  /\ p = PingTask
  /\ ping = "probe" /\ seq < PingProbes
  /\ \E d \in FailureTimes : elapsed' = elapsed + d
  /\ probes' = Append(probes, FALSE)
  /\ ping' = "sleep"
  /\ PingFrame
  /\ UNCHANGED << mutex, seq, success, pings, slept >>

\* The else branch: sleep 1 s, then the next turn of the loop.
ping_sleep(p) ==
  /\ p = PingTask
  /\ ping = "sleep"
  /\ elapsed' = elapsed + PingSleep
  /\ slept' = slept + 1
  /\ seq' = seq + 1
  /\ ping' = "probe"
  /\ PingFrame
  /\ UNCHANGED << mutex, success, pings, probes >>

\* The range 0..3 is used up: the loop ends, success is still false.
ping_exhausted(p) ==
  /\ p = PingTask
  /\ ping = "probe" /\ seq >= PingProbes
  /\ ping' = "commit"
  /\ PingFrame
  /\ UNCHANGED << mutex, seq, success, pings, elapsed, probes, slept >>

\* let state = state1.lock().await; state.persistent_state.update(..) starts.
ping_update(p) ==
  /\ p = PingTask
  /\ ping = "commit"
  /\ mutex = NoTask
  /\ mutex' = p
  /\ CallOf(p, {[kind |-> "update", f |-> "ping_result", arg |-> success]}, MaxPingRuns)
  /\ result' = [result EXCEPT ![p] = "none"]
  /\ ping' = "update"
  /\ UNCHANGED << pq, queue, new_queue, sm, dest, message_timeout, runs, sends,
                  drained, attempted, delivered, dropped, tried, pushed, arrived >>
  /\ UNCHANGED << bvars, dvars, cvars, svars, seq, success, pings, elapsed, probes, slept >>

\* update has returned; an error is logged; the State guard drops.
ping_done(p) ==
  /\ p = PingTask
  /\ ping = "update"
  /\ pc[p] = "idle" /\ result[p] # "none"
  /\ mutex' = NoTask
  /\ ping' = "done"
  /\ PingFrame
  /\ UNCHANGED << seq, success, pings, elapsed, probes, slept >>

InitPing ==
  /\ StoreInit /\ JobsInit /\ message_timeout = 0
  /\ BalanceInit /\ get_balance_retry_count = MaxRetryCount
  /\ NoDecode /\ PingInit /\ CronInit /\ telegram = TRUE

NextPing ==
  \/ \E p \in Tasks : ping_job(p)
  \/ \E p \in Tasks : ping_client_fails(p)
  \/ \E p \in Tasks : ping_client(p)
  \/ \E p \in Tasks : ping_reply(p)
  \/ \E p \in Tasks : ping_no_reply(p)
  \/ \E p \in Tasks : ping_sleep(p)
  \/ \E p \in Tasks : ping_exhausted(p)
  \/ \E p \in Tasks : ping_update(p)
  \/ \E p \in Tasks : ping_done(p)
  \/ \E p \in Tasks : is_changed_on_disk(p) /\ UNCHANGED jvars /\ UNCHANGED othervars
  \/ \E p \in Tasks : reload_load(p) /\ UNCHANGED jvars /\ UNCHANGED othervars
  \/ \E p \in Tasks : reload_assign(p) /\ UNCHANGED jvars /\ UNCHANGED othervars
  \/ \E p \in Tasks : update_lock(p) /\ UNCHANGED jvars /\ UNCHANGED othervars
  \/ \E p \in Tasks : update_mutate(p) /\ UNCHANGED jvars /\ UNCHANGED othervars
  \/ \E p \in Tasks : update_write_open(p) /\ UNCHANGED jvars /\ UNCHANGED othervars
  \/ \E p \in Tasks : update_write_open_fails(p) /\ Returned(p, "err") /\ UNCHANGED othervars
  \/ \E p \in Tasks : update_write_all(p) /\ Returned(p, "ok") /\ UNCHANGED othervars
  \/ \E p \in Tasks : update_write_all_fails(p) /\ Returned(p, "err") /\ UNCHANGED othervars
  \/ Tick /\ UNCHANGED jvars /\ UNCHANGED othervars

SpecPing == InitPing /\ [][NextPing]_vars

\* ------------------------------------- the speedtest and the balance job
SpeedtestTask == "t1"
BalanceTask == "t2"

\* MobileProvider.low_download_speed_threshold, and the download speeds
\* SpeedTest::run can report: at the threshold and above it.
low_download_speed_threshold == 2
Downloads == {2, 3}
\* MobileProvider.min_update_tariff_interval, in ticks of the clock.
min_update_tariff_interval == 1
\* MobileProvider.low_balance_threshold; the balances read are below it and at it.
low_balance_threshold == 2
\* MobileProvider.telegram_chat_ids, and the texts of the two alerts.
ProviderChatIds == << "a" >>
TariffText == "tariff"
BalanceText == "balance"

\* The variables of the ping job's probe sequence.
PingLocals == << ping, seq, success, pings, elapsed, probes, slept >>

\* What a step of a cron job that calls nothing in the store leaves alone.
CronFrame ==
  /\ StoreUnchanged
  /\ UNCHANGED << jvars, bvars, dvars, PingLocals, telegram, svars >>

\* A job calls get or update of the store.
StartCall(p, c) ==
  /\ CallOf(p, {c}, MaxCronCalls)
  /\ result' = [result EXCEPT ![p] = "none"]
  /\ UNCHANGED << pq, queue, new_queue, sm, dest, message_timeout, runs, sends,
                  drained, attempted, delivered, dropped, tried, pushed, arrived >>
  /\ UNCHANGED << bvars, dvars, PingLocals, telegram, svars >>

\* The call of the store that task p started has returned.
CallReturned(p) == pc[p] = "idle" /\ result[p] # "none"

\* The speedtest job fires: state1.lock().await.config.speedtest.clone();
\* the guard drops at the end of the statement.
speedtest_job(p) ==
  /\ p = SpeedtestTask
  /\ job[p] \in {"idle", "done"}
  /\ fires[p] < MaxSpeedtestRuns
  /\ mutex = NoTask
  /\ fires' = [fires EXCEPT ![p] = @ + 1]
  /\ job' = [job EXCEPT ![p] = "run"]
  /\ alerts' = [alerts EXCEPT ![p] = << >>]
  /\ gave_up' = [gave_up EXCEPT ![p] = FALSE]
  /\ CronFrame
  /\ UNCHANGED << mutex, speedtest, unwrapped, balance_read, launches >>

\* A failed speed test that goes on to the commit with what it has.
speedtest_run_fails_commits(p) ==
  /\ p = SpeedtestTask
  /\ job[p] = "run"
  /\ job' = [job EXCEPT ![p] = "lock"]
  /\ gave_up' = [gave_up EXCEPT ![p] = TRUE]
  /\ CronFrame
  /\ UNCHANGED << mutex, fires, speedtest, unwrapped, balance_read, launches, alerts >>

\* SpeedTest::run is an error (the tool cannot be run or its output does
\* not parse): it is logged, the job ends.
speedtest_run_fails(p) ==
  /\ p = SpeedtestTask
  /\ job[p] = "run"
  /\ job' = [job EXCEPT ![p] = "done"]
  /\ gave_up' = [gave_up EXCEPT ![p] = TRUE]
  /\ CronFrame
  /\ UNCHANGED << mutex, fires, speedtest, unwrapped, balance_read, launches, alerts >>

\* SpeedTest::run returns Ok(speedtest).
speedtest_run(p) ==
  /\ p = SpeedtestTask
  /\ job[p] = "run"
  /\ speedtest' \in Downloads
  /\ job' = [job EXCEPT ![p] = "lock"]
  /\ CronFrame
  /\ UNCHANGED << mutex, fires, unwrapped, balance_read, launches, alerts, gave_up >>

\* let state = state1.lock().await; update(speedtest = Some(speedtest)) starts.
speedtest_update(p) ==
  /\ p = SpeedtestTask
  /\ job[p] = "lock"
  /\ mutex = NoTask
  /\ mutex' = p
  /\ StartCall(p, [kind |-> "update", f |-> "speedtest", arg |-> speedtest])
  /\ job' = [job EXCEPT ![p] = "update"]
  /\ UNCHANGED << fires, speedtest, unwrapped, balance_read, launches, alerts, gave_up >>

\* The update has returned (an error is logged); update_tariff starts with
\* persistent_state.get().
update_tariff(p) ==
  /\ p = SpeedtestTask
  /\ job[p] = "update"
  /\ CallReturned(p)
  /\ StartCall(p, [kind |-> "get"])
  /\ job' = [job EXCEPT ![p] = "get"]
  /\ UNCHANGED << mutex, fires, speedtest, unwrapped, balance_read, launches, alerts,
                  gave_up >>

\* What get returns to update_tariff: the clone of the record.
Got(p) ==
  /\ unwrapped' = IF p = SpeedtestTask /\ job[p] = "get" THEN state ELSE unwrapped
  /\ result' = [result EXCEPT ![p] = "ok"]
  /\ UNCHANGED << pq, queue, new_queue, sm, dest, message_timeout, runs, sends,
                  drained, attempted, delivered, dropped, tried, pushed, arrived >>
  /\ UNCHANGED << bvars, dvars, pvars, svars, job, fires, telegram, speedtest, balance_read,
                  launches, alerts, gave_up >>

\* chrono::Utc::now() - last_update < min_update_tariff_interval
TooRecent(last, t) == t - last < min_update_tariff_interval

\* A test that also takes a speed at the threshold for a good one.
IsFast_at_threshold(download) == download >= low_download_speed_threshold

\* speedtest.download > self.low_download_speed_threshold
IsFast(download) == download > low_download_speed_threshold

\* update_tariff, lines 226-246: the snapshot asks for a tariff update.
Eligible(snap, t) ==
  /\ snap.speedtest # None
  /\ ~IsFast(snap.speedtest[1])
  /\ IF snap.last_tariff_update = None THEN TRUE
     ELSE ~TooRecent(snap.last_tariff_update[1], t)

\* update_tariff returns early: no speedtest, a good speed, or a recent
\* update; the State guard drops, the job ends.
update_tariff_skip(p) ==
  /\ p = SpeedtestTask
  /\ job[p] = "get"
  /\ CallReturned(p)
  /\ ~Eligible(unwrapped, now)
  /\ mutex' = NoTask
  /\ job' = [job EXCEPT ![p] = "done"]
  /\ CronFrame
  /\ UNCHANGED << fires, speedtest, unwrapped, balance_read, launches, alerts, gave_up >>

\* update_tariff goes on to the command.
update_tariff_trigger(p) ==
  /\ p = SpeedtestTask
  /\ job[p] = "get"
  /\ CallReturned(p)
  /\ Eligible(unwrapped, now)
  /\ job' = [job EXCEPT ![p] = "command"]
  /\ CronFrame
  /\ UNCHANGED << mutex, fires, speedtest, unwrapped, balance_read, launches, alerts,
                  gave_up >>

\* bash -c update_tariff_command cannot be run: logged, return; the State
\* guard drops, the job ends.
tariff_command_fails(p) ==
  /\ p = SpeedtestTask
  /\ job[p] = "command"
  /\ mutex' = NoTask
  /\ job' = [job EXCEPT ![p] = "done"]
  /\ gave_up' = [gave_up EXCEPT ![p] = TRUE]
  /\ CronFrame
  /\ UNCHANGED << fires, speedtest, unwrapped, balance_read, launches, alerts >>

\* bash -c update_tariff_command has run; with telegram configured the
\* alert follows, then the marker.
tariff_command(p) ==
  /\ p = SpeedtestTask
  /\ job[p] = "command"
  /\ launches' = Append(launches, now)
  /\ job' = [job EXCEPT ![p] = IF telegram THEN "alert" ELSE "mark"]
  /\ CronFrame
  /\ UNCHANGED << mutex, fires, speedtest, unwrapped, balance_read, alerts, gave_up >>

\* Where a job goes on after send_message.
AfterAlert(p) == IF p = SpeedtestTask THEN "mark" ELSE "lock"
AlertTextOf(p) == IF p = SpeedtestTask THEN TariffText ELSE BalanceText

\* send_message: try_send_message to the chat succeeds.
alert_sent(p) ==
  /\ job[p] = "alert"
  /\ alerts' = [alerts EXCEPT ![p] = Append(@, "sent")]
  /\ job' = [job EXCEPT ![p] = AfterAlert(p)]
  /\ CronFrame
  /\ UNCHANGED << mutex, fires, speedtest, unwrapped, balance_read, launches, gave_up >>

\* send_message: try_send_message fails; update(push the message) starts.
alert_failed(p) ==
  /\ job[p] = "alert"
  /\ alerts' = [alerts EXCEPT ![p] = Append(@, "failed")]
  /\ StartCall(p, [kind |-> "update", f |-> "push", chat |-> ProviderChatIds[1],
                    text |-> AlertTextOf(p)])
  /\ job' = [job EXCEPT ![p] = "alert_push"]
  /\ UNCHANGED << mutex, fires, speedtest, unwrapped, balance_read, launches, gave_up >>

\* send_message: the push has returned (an error is logged); the loop over
\* the chat ids ends.
alert_pushed(p) ==
  /\ job[p] = "alert_push"
  /\ CallReturned(p)
  /\ job' = [job EXCEPT ![p] = AfterAlert(p)]
  /\ CronFrame
  /\ UNCHANGED << mutex, fires, speedtest, unwrapped, balance_read, launches, alerts,
                  gave_up >>

\* update_tariff: update(last_tariff_update = Some(Utc::now())) starts.
tariff_mark(p) ==
  /\ p = SpeedtestTask
  /\ job[p] = "mark"
  /\ StartCall(p, [kind |-> "update", f |-> "tariff"])
  /\ job' = [job EXCEPT ![p] = "marking"]
  /\ UNCHANGED << mutex, fires, speedtest, unwrapped, balance_read, launches, alerts,
                  gave_up >>

\* The marker's update has returned (an error is logged); update_tariff
\* returns, the State guard drops, the job ends.
tariff_marked(p) ==
  /\ p = SpeedtestTask
  /\ job[p] = "marking"
  /\ CallReturned(p)
  /\ mutex' = NoTask
  /\ job' = [job EXCEPT ![p] = "done"]
  /\ CronFrame
  /\ UNCHANGED << fires, speedtest, unwrapped, balance_read, launches, alerts, gave_up >>

\* The balance job fires: state1.lock().await.config.clone(), the guard
\* drops; get_and_alert_balance starts.
balance_job(p) ==
  /\ p = BalanceTask
  /\ job[p] \in {"idle", "done"}
  /\ fires[p] < MaxBalanceRuns
  /\ mutex = NoTask
  /\ fires' = [fires EXCEPT ![p] = @ + 1]
  /\ job' = [job EXCEPT ![p] = "get_balance"]
  /\ alerts' = [alerts EXCEPT ![p] = << >>]
  /\ gave_up' = [gave_up EXCEPT ![p] = FALSE]
  /\ CronFrame
  /\ UNCHANGED << mutex, speedtest, unwrapped, balance_read, launches >>

\* get_balance is an error (every attempt failed): `?` returns it from
\* get_and_alert_balance, the job logs it and returns.
balance_fails(p) ==
  /\ p = BalanceTask
  /\ job[p] = "get_balance"
  /\ job' = [job EXCEPT ![p] = "done"]
  /\ gave_up' = [gave_up EXCEPT ![p] = TRUE]
  /\ CronFrame
  /\ UNCHANGED << mutex, fires, speedtest, unwrapped, balance_read, launches, alerts >>

\* An alert also for a balance at the threshold.
IsLow_inclusive(v) == v <= low_balance_threshold

\* balance < self.low_balance_threshold
IsLow(v) == v < low_balance_threshold

\* get_balance returns Ok(balance): below the threshold, with telegram
\* configured, alert_balance calls send_message; then Ok(balance).
balance_got(p) ==
  /\ p = BalanceTask
  /\ job[p] = "get_balance"
  /\ \E v \in Balances :
       /\ balance_read' = v
       /\ job' = [job EXCEPT ![p] = IF IsLow(v) /\ telegram THEN "alert" ELSE "lock"]
  /\ CronFrame
  /\ UNCHANGED << mutex, fires, speedtest, unwrapped, launches, alerts, gave_up >>

\* state1.lock().await.persistent_state.update(balance = Some(balance)) starts.
balance_update(p) ==
  /\ p = BalanceTask
  /\ job[p] = "lock"
  /\ mutex = NoTask
  /\ mutex' = p
  /\ StartCall(p, [kind |-> "update", f |-> "balance", arg |-> balance_read])
  /\ job' = [job EXCEPT ![p] = "update"]
  /\ UNCHANGED << fires, speedtest, unwrapped, balance_read, launches, alerts, gave_up >>

\* The update has returned (an error is logged); the State guard drops.
balance_updated(p) ==
  /\ p = BalanceTask
  /\ job[p] = "update"
  /\ CallReturned(p)
  /\ mutex' = NoTask
  /\ job' = [job EXCEPT ![p] = "done"]
  /\ CronFrame
  /\ UNCHANGED << fires, speedtest, unwrapped, balance_read, launches, alerts, gave_up >>

InitCron ==
  /\ StoreInit /\ file = MissingFile
  /\ JobsInit /\ message_timeout = 0
  /\ BalanceInit /\ get_balance_retry_count = MaxRetryCount
  /\ NoDecode /\ PingInit /\ CronInit
  /\ telegram \in BOOLEAN

\* What a step of a store call leaves alone in the jobs.
CallFrame == UNCHANGED jvars /\ UNCHANGED othervars
ReturnFrame(p, r) == Returned(p, r) /\ UNCHANGED othervars

NextCron ==
  \/ \E p \in Tasks : speedtest_job(p)
  \/ \E p \in Tasks : speedtest_run_fails(p)
  \/ \E p \in Tasks : speedtest_run(p)
  \/ \E p \in Tasks : speedtest_update(p)
  \/ \E p \in Tasks : update_tariff(p)
  \/ \E p \in Tasks : update_tariff_skip(p)
  \/ \E p \in Tasks : update_tariff_trigger(p)
  \/ \E p \in Tasks : tariff_command_fails(p)
  \/ \E p \in Tasks : tariff_command(p)
  \/ \E p \in Tasks : alert_sent(p)
  \/ \E p \in Tasks : alert_failed(p)
  \/ \E p \in Tasks : alert_pushed(p)
  \/ \E p \in Tasks : tariff_mark(p)
  \/ \E p \in Tasks : tariff_marked(p)
  \/ \E p \in Tasks : balance_job(p)
  \/ \E p \in Tasks : balance_fails(p)
  \/ \E p \in Tasks : balance_got(p)
  \/ \E p \in Tasks : balance_update(p)
  \/ \E p \in Tasks : balance_updated(p)
  \/ \E p \in Tasks : is_changed_on_disk(p) /\ CallFrame
  \/ \E p \in Tasks : reload_load(p) /\ CallFrame
  \/ \E p \in Tasks : reload_assign(p) /\ CallFrame
  \/ \E p \in Tasks : get_clone(p) /\ Got(p)
  \/ \E p \in Tasks : update_lock(p) /\ CallFrame
  \/ \E p \in Tasks : update_mutate(p) /\ CallFrame
  \/ \E p \in Tasks : update_write_open(p) /\ CallFrame
  \/ \E p \in Tasks : update_write_open_fails(p) /\ ReturnFrame(p, "err")
  \/ \E p \in Tasks : update_write_all(p) /\ ReturnFrame(p, "ok")
  \/ \E p \in Tasks : update_write_all_fails(p) /\ ReturnFrame(p, "err")
  \/ Tick /\ CallFrame

SpecCron == InitCron /\ [][NextCron]_vars

\* The steps of task p inside a call of the store.
StoreStep(p) ==
  \/ is_changed_on_disk(p) /\ CallFrame
  \/ reload_load(p) /\ CallFrame
  \/ reload_assign(p) /\ CallFrame
  \/ get_clone(p) /\ Got(p)
  \/ update_lock(p) /\ CallFrame
  \/ update_mutate(p) /\ CallFrame
  \/ update_write_open(p) /\ CallFrame
  \/ update_write_open_fails(p) /\ ReturnFrame(p, "err")
  \/ update_write_all(p) /\ ReturnFrame(p, "ok")
  \/ update_write_all_fails(p) /\ ReturnFrame(p, "err")

\* The tokio runtime keeps polling a task that can go on: a task inside get
\* or update takes its next step when that step stays possible.
FairSpecCron == SpecCron /\ \A p \in Tasks : WF_vars(StoreStep(p))

\* ------------------------------------------------ the scheduler's dispatch
\* What a step of the scheduler leaves alone.
SchedulerFrame ==
  /\ StoreUnchanged
  /\ UNCHANGED << jvars, bvars, dvars, pvars, cvars >>

\* The closures init_cronjobs hands to Job::new_async clone their handles and
\* return Box::pin(async move { .. }): they keep no record of the futures
\* they returned, and test nothing before they return the next one.
MayDispatch(j) == TRUE

\* The schedule of job j is due: the scheduler calls the job's closure and
\* runs the future it returns.
Job_new_async(j) ==
  /\ dispatches < MaxDispatches
  /\ MayDispatch(j)
  /\ dispatches' = dispatches + 1
  /\ live' = [live EXCEPT ![j] = @ + 1]
  /\ SchedulerFrame

\* A future of job j runs to its end: every closure's async block ends in
\* (), errors are logged.
job_future_done(j) ==
  /\ live[j] > 0
  /\ live' = [live EXCEPT ![j] = @ - 1]
  /\ UNCHANGED dispatches
  /\ SchedulerFrame

InitScheduler ==
  /\ StoreInit /\ file = MissingFile
  /\ JobsInit /\ message_timeout = 0
  /\ BalanceInit /\ get_balance_retry_count = MaxRetryCount
  /\ NoDecode /\ PingInit /\ CronInit /\ telegram = TRUE

NextScheduler ==
  \/ \E j \in Jobs : Job_new_async(j)
  \/ \E j \in Jobs : job_future_done(j)
  \/ Tick /\ CallFrame

SpecScheduler == InitScheduler /\ [][NextScheduler]_vars

\* ------------------------------------------------------------- properties
\* The steps of update between taking the state mutex and dropping it.
UpdateSection == {"mutate", "write", "write_all"}

AllIdle == \A p \in Tasks : pc[p] = "idle"

\* What a load of the file as it is now would give.
FileRecord == PersistentState_load_from_yaml(file)

\* C1: at most one update is in its mutate-serialize-write sequence at a
\* time, so two updates never write the file concurrently.
C1_UpdatesExclusive ==
  \A p, q \in Tasks :
    (p # q /\ pc[p] \in UpdateSection) => pc[q] \notin UpdateSection

\* C1 witness: one update is writing while another waits for the mutex.
C1_Witness ==
  \E p, q \in Tasks : pc[p] = "write_all" /\ pc[q] = "lock"

\* C2: no update is lost: once every call has returned (writes succeed,
\* nobody else touches the file), the in-memory record and the file both
\* hold the effect of every mutator.
C2_NoUpdateLost ==
  AllIdle => (state = ideal[1] /\ FileRecord = ideal[1])

\* C3: every get returns the record left by the last completed load or
\* update, never one seen in the middle of a mutator.
C3_GetReturnsCompleted ==
  [][\A p \in Tasks : get_clone(p) => lastGet'[p] = Some(snapshot)]_vars

\* C3 witness: a get has returned a non-empty record while another task is
\* inside an update call.
C3_Witness ==
  \E p, q \in Tasks :
    /\ lastGet[p] = Some(snapshot) /\ snapshot # DefaultState
    /\ pc[q] = "lock"

\* C4: whenever no update holds the state mutex (writes succeed, nobody else
\* touches the file), the record in the file equals the in-memory record.
C4_MemoryEqualsFile ==
  stateLock = NoTask => FileRecord = state

\* C5: the file is replaced atomically: while nobody else touches it, it
\* holds a complete serialized record at every instant.
C5_FileAlwaysComplete ==
  (externals = 0 /\ file.exists) => file.content.kind = "doc"

\* C6: after an update whose write failed, the in-memory record stays the
\* mutated one (so every get returns it) until a later update or a change of
\* the file from outside.
C6_FailedWriteKeepsMutation ==
  (failed # None /\ stateLock = NoTask) => state = failed[1]

\* C7: two consecutive gets of a task, with no update and no change of the
\* file from outside in between, return identical records.
C7_GetIdempotent ==
  [][\A p \in Tasks :
       (get_clone(p) /\ lastGet[p] # None) => lastGet'[p] = lastGet[p]]_vars

\* C8: after a successful update with the identity mutator, a restart (a new
\* store built from the same path) gives the record held before the restart.
C8_RoundTrip ==
  [][(PersistentStateGuard_load_from_yaml /\ fresh = "written") => state' = state]_vars

\* C8 witness: the store was restarted right after an identity update and
\* holds a non-empty record.
C8_Witness ==
  fresh = "restarted" /\ state # DefaultState

\* A file that cannot be loaded: missing, or content that does not parse.
Unloadable(f) == ~f.exists \/ ~ParsesAsState(f.content)

\* C9: a load failure gives the empty default record, at startup and in a
\* staleness reload.
C9_LoadFailureGivesDefault ==
  [][/\ \A p \in Tasks :
          (reload_load(p) /\ Unloadable(file)) => loaded'[p] = DefaultState
     /\ (PersistentStateGuard_load_from_yaml /\ Unloadable(file))
          => state' = DefaultState]_vars

\* C9 witness: a staleness reload has read an unparsable file and holds the
\* default record, about to replace a non-empty in-memory record.
C9_Witness ==
  \E p \in Tasks :
    /\ pc[p] = "assign" /\ file.exists /\ ~ParsesAsState(file.content)
    /\ loaded[p] = DefaultState /\ state # DefaultState

C11_ExternalEditWins ==
  [][\A p \in Tasks :
       /\ (get_clone(p) /\ reloaded[p] # None) => lastGet'[p] = reloaded[p]
       /\ (update_lock(p) /\ reloaded[p] # None) => Some(state) = reloaded[p]]_vars

\* The messages of a queue, as a set.
Messages(q) == {q[i] : i \in 1..Len(q)}

\* C12: process_queue loses no notification that arrives while it runs: a
\* message send_message pushed between the drain and the write back is in
\* the stored queue when process_queue returns.
C12_ArrivalsKept ==
  [][\A p \in Tasks :
       process_queue_return(p) => arrived \subseteq Messages(state.telegram_queue)]_vars

\* A run of process_queue ends with this step, with Ok or with an error.
RunEnds == pq \in {"drain", "write_back"} /\ pq' \in {"done", "failed"}

\* C13: a queued message that is not expired when process_queue handles it
\* is never lost: when the run ends, also with an error, every message it
\* drained was dropped as expired, was delivered, or is in the stored queue.
C13_UnexpiredNotLost ==
  [][RunEnds =>
       \A m \in Messages(drained) :
         m \in dropped \/ m \in delivered \/ m \in Messages(state.telegram_queue)]_vars

\* C14: a message older than message_timeout when process_queue handles it
\* is dropped: it is not tried and not requeued, so no later run meets it;
\* a message whose age is at most the timeout is tried, and only messages
\* that were tried are written back.
C14_ExpiredDropped ==
  [][\A p \in Tasks :
       /\ process_queue_pop(p) =>
            LET m == queue[Len(queue)]
            IN IF now - m.timestamp > message_timeout
               THEN attempted' = attempted /\ new_queue' = new_queue
               ELSE attempted' = Append(attempted, m) /\ m \notin dropped
       /\ process_queue_write_back(p) =>
            /\ Len(new_queue) <= Len(attempted)
            /\ Messages(new_queue) \subseteq Messages(attempted)]_vars

\* C14 witness: in one run a message older than the timeout was dropped and
\* a message whose age is the timeout was tried.
C14_Witness ==
  /\ pq = "loop"
  /\ \E m \in dropped : m \in Messages(drained) /\ m \notin Messages(attempted)
  /\ \E m \in Messages(attempted) : now - m.timestamp = message_timeout

\* C15: process_queue handles the drained entries oldest first: each turn of
\* its loop takes the entry that was enqueued first among those left.
C15_OldestFirst ==
  [][\A p \in Tasks : process_queue_pop(p) => queue' = Tail(queue)]_vars

\* The first update of process_queue returns with this step.
DrainReturns ==
  pq = "drain" /\ pc[QueueTask] \in {"write", "write_all"} /\ pc'[QueueTask] = "idle"

\* C16: the drain is atomic: the first update of process_queue returns
\* exactly the stored queue of the instant it took the mutex and leaves the
\* stored queue empty, so every entry send_message has enqueued by then is
\* in the drained batch (and none is in both or in neither).
C16_DrainAtomic ==
  [][DrainReturns =>
       /\ queue = snapshot.telegram_queue
       /\ state.telegram_queue = << >>
       /\ runs = 1 => Messages(pushed) \subseteq Messages(queue)]_vars

\* The attempts of a send_message that failed, in order.
FailedAttempts(tr) == SelectSeq(tr, LAMBDA a : ~a.sent)

\* C17: send_message tries each chat once, in order; for each failed attempt
\* its update appends exactly one entry {chat, text, now} to the queue, for
\* a successful one nothing; it goes on to the next chat whether the update
\* returned Ok or an error, and returns nothing to its caller.
C17_SendOnceThenEnqueue ==
  [][\A p \in Tasks :
       /\ send_message_return(p) =>
            /\ Len(tried) = Len(ChatIds)
            /\ \A i \in 1..Len(tried) : tried[i].chat_id = ChatIds[i]
            /\ Len(pushed) = Len(FailedAttempts(tried))
            /\ \A j \in 1..Len(pushed) :
                 /\ pushed[j].chat_id = FailedAttempts(tried)[j].chat_id
                 /\ pushed[j].text = AlertText
       /\ (update_mutate(p) /\ call[p].f = "push") =>
            state'.telegram_queue =
              Append(state.telegram_queue, TelegramMessage(call[p].chat, AlertText, now))
       /\ send_message_pushed(p) => (sm' = "try" /\ dest' = dest + 1)]_vars

\* C17 witness: send_message has returned after one failed and one
\* successful attempt, and the update that enqueued the failed one returned
\* an error.
C17_Witness ==
  /\ sm = "done" /\ result[SendTask] = "err"
  /\ Len(pushed) = 1
  /\ \E i, j \in 1..Len(tried) : ~tried[i].sent /\ tried[j].sent


\* The attempts of this call that succeeded, by position.
Succeeded == {k \in 1..Len(outcomes) : outcomes[k].ok}

\* C18: with retry count N and a balance command that fails on every attempt,
\* get_balance makes exactly N attempts, then runs the restart command exactly
\* once, then returns an error.
C18_ExhaustedRetries ==
  [][/\ (restart_lte /\ Succeeded = {}) =>
          (Len(outcomes) = get_balance_retry_count /\ restarted = 0)
     /\ (get_balance_return /\ Succeeded = {}) =>
          /\ Len(outcomes) = get_balance_retry_count
          /\ restarted = 1
          /\ returned' = Some(Err)]_vars

C18_Witness ==
  /\ gb = "done"
  /\ get_balance_retry_count = 3
  /\ Len(outcomes) = 3 /\ Succeeded = {}
  /\ restarted = 1
  /\ returned = Some(Err)

\* C19: every call of get_balance runs the restart command exactly once, after
\* the last attempt and before returning, whether an attempt succeeded, all
\* attempts failed, the retry count is 0, or the restart command itself failed;
\* the restart's failure does not change the result.
C19_RestartExactlyOnce ==
  [][/\ restart_lte => restarted = 0
     /\ Len(outcomes') > Len(outcomes) => restarted = 0
     /\ get_balance_return =>
          /\ restarted = 1
          /\ returned'[1].ok = (Succeeded # {})]_vars

C19_Witness ==
  /\ gb = "done"
  /\ restarted = 1 /\ ~restart_ok
  /\ returned # None /\ returned[1].ok
  /\ invocations = MaxInvocations

\* C20: get_balance returns the balance of the first attempt that succeeds
\* and makes no attempt after it (k attempts if the k-th is the first to
\* succeed); it fails only if every configured attempt failed.
C20_FirstSuccess ==
  [][get_balance_return =>
       IF Succeeded # {}
         THEN LET k == CHOOSE j \in Succeeded : \A l \in Succeeded : j <= l
              IN /\ returned' = Some(Ok(outcomes[k].v))
                 /\ Len(outcomes) = k
         ELSE /\ returned' = Some(Err)
              /\ Len(outcomes) = get_balance_retry_count]_vars

C20_Witness ==
  /\ gb = "done"
  /\ Len(outcomes) = 2
  /\ ~outcomes[1].ok /\ outcomes[2].ok
  /\ get_balance_retry_count = 3
  /\ returned = Some(Ok(outcomes[2].v))


\* C21: the payload of test_utf8_decoder decodes to the text the test asserts
\* and yields the balance 398.08 (third token after "You have "); the payload
\* of test_ucs2_decoder decodes to the text the test asserts and yields
\* 548.08 (second token after "Баланс ").
C21_TestPayloadsDecode ==
  /\ (gbo \in {"decoded", "done"} /\ payload = test_utf8_decoder_input) =>
       utf8 = Text(test_utf8_decoder_output)
  /\ (gbo \in {"decoded", "done"} /\ payload = test_ucs2_decoder_input) =>
       ucs2 = Text(test_ucs2_decoder_output)
  /\ (gbo = "done" /\ payload = test_utf8_decoder_input) =>
       once = Balance(Decimal(39808, 2))
  /\ (gbo = "done" /\ payload = test_ucs2_decoder_input) =>
       once = Balance(Decimal(54808, 2))

C21_Witness ==
  /\ gbo = "done"
  /\ payload = test_utf8_decoder_input
  /\ utf8.ok /\ utf8.text = test_utf8_decoder_output
  /\ once.ok /\ once.v.m = 39808 /\ once.v.scale = 2

\* What one variant is worth on its own: a number, or the reason it has none.
Examine(text) ==
  LET pos == TokenPosition(text)
      words == split_whitespace(text)
  IN IF pos = 0 THEN NoBalance("unknown prefix")
     ELSE IF Len(words) < pos THEN NoBalance("no token")
     ELSE IF parse_f64(words[pos]).kind = "error" THEN NoBalance("unparsable")
     ELSE Balance(parse_f64(words[pos]))

\* The least element of a nonempty set of numbers.
Least(S) == CHOOSE i \in S : \A j \in S : i <= j

\* C22 as stated: the variants are examined in the order UCS-2, UTF-8 up to
\* the first that yields a number; a variant that fails for any reason,
\* a missing token included, is passed over and the next one is examined; the
\* attempt fails only when no variant yields a number.
C22_EveryVariantTried ==
  gbo = "done" =>
    LET vs == message_variants(payload)
        Y == {i \in 1..Len(vs) : Examine(vs[i]).ok}
    IN IF Y = {}
         THEN ~once.ok /\ seen = Len(vs)
         ELSE once = Examine(vs[Least(Y)]) /\ seen = Least(Y)

\* C22 amended: the variants are examined in the order UCS-2, UTF-8; the
\* result is the number of the first variant that has a known prefix and a
\* token that parses, and the attempt fails only when no variant yields a
\* number; a variant with an unknown prefix or an unparsable token is passed
\* over, while a variant with a known prefix and no token at the position ends
\* the attempt with an error at once, the later variants unexamined.
C22_FirstYieldingVariant ==
  gbo = "done" =>
    LET vs == message_variants(payload)
        Y == {i \in 1..Len(vs) : Examine(vs[i]).ok}
        Stop == {i \in 1..Len(vs) : Examine(vs[i]).ok \/ Examine(vs[i]).why = "no token"}
    IN /\ once.ok = (Y # {})
       /\ Y # {} => once = Examine(vs[Least(Y)])
       /\ seen = IF Stop = {} THEN Len(vs) ELSE Least(Stop)
       /\ (Len(vs) = 2 /\ decode_ucs2_in_hex(payload).ok) =>
            vs[1] = decode_ucs2_in_hex(payload).text

C22_Witness ==
  /\ gbo = "done"
  /\ Len(message_variants(payload)) = 2
  /\ Examine(message_variants(payload)[1]).why = "no token"
  /\ seen = 1
  /\ ~once.ok

\* C23: decode_ucs2_in_hex ignores a trailing incomplete code unit: the
\* result for h is the result for h cut to the largest multiple of 4 digits,
\* never a panic; a prefix of the test payload gives the text of its whole
\* code units.
C23_TrailingUnitIgnored ==
  gbo \in {"decoded", "done"} =>
    /\ ucs2 = decode_ucs2_in_hex(SubSeq(payload, 1, Len(payload) - (Len(payload) % 4)))
    /\ ucs2.why # "panic"
    /\ payload \in Prefixes(test_ucs2_decoder_input) =>
         ucs2 = Text(SubSeq(test_ucs2_decoder_output, 1, Len(payload) \div 4))

C23_Witness ==
  /\ gbo = "decoded"
  /\ payload = SubSeq(test_ucs2_decoder_input, 1, Len(test_ucs2_decoder_input) - 3)
  /\ ucs2 = Text(SubSeq(test_ucs2_decoder_output, 1, Len(test_ucs2_decoder_output) - 1))


\* The probes of this sequence that got no reply.
Unanswered == {k \in 1..Len(probes) : ~probes[k]}

\* C26: the reachability check sends at most 3 probes, none after the first
\* reply, sleeps 1 s after each probe without a reply and only then, and
\* returns true iff a probe got a reply (false when the pinger cannot be
\* made); the ping job commits exactly that boolean.
C26_ProbeResultCommitted ==
  [][\A p \in Tasks :
       /\ (ping_reply(p) \/ ping_no_reply(p)) =>
            (Len(probes) < 3 /\ Unanswered = 1..Len(probes))
       /\ ping_sleep(p) =>
            (probes # << >> /\ ~probes[Len(probes)] /\ slept = Len(probes) - 1)
       /\ ping_update(p) =>
            /\ Len(probes) <= 3
            /\ success = (\E k \in 1..Len(probes) : probes[k])
            /\ slept = Cardinality(Unanswered)
            /\ call'[p].arg = success
       /\ (update_mutate(p) /\ call[p].f = "ping_result") =>
            state'.is_wide_network_available = Some(success)]_vars

C26_Witness ==
  /\ ping = "done"
  /\ probes = << FALSE, TRUE >>
  /\ slept = 1
  /\ result[PingTask] = "ok"
  /\ state.is_wide_network_available = Some(TRUE)

\* C27: a probe sequence, its probes and the sleeps between them, is over
\* within 10 seconds, also when every probe times out.
C27_SequenceWithinCeiling ==
  ping \in {"commit", "update", "done"} => elapsed <= 10

\* Task p is at external work: the speed-test tool, the tariff command, a
\* notification send or the balance pipeline.
ExternalWork(p) == job[p] \in {"run", "command", "alert", "get_balance"}

\* C24: no job holds the State mutex or the store's state mutex while it
\* runs an external command, probes the network or sends a notification.
C24_NoLockDuringExternalWork ==
  \A p \in Tasks : ExternalWork(p) => mutex # p /\ stateLock # p

\* The external work of task p's job fails in this step.
WorkFails(p) == job[p] \in {"run", "get_balance"} /\ ~gave_up[p] /\ gave_up'[p]

Due(snap, t) ==
  /\ snap.speedtest # None
  /\ snap.speedtest[1] <= low_download_speed_threshold
  /\ IF snap.last_tariff_update = None THEN TRUE
     ELSE t - snap.last_tariff_update[1] >= min_update_tariff_interval

\* C28: the tariff command runs only when the snapshot read by update_tariff
\* has a speedtest whose download is not above the threshold and a
\* last_tariff_update that is absent or old enough; update_tariff goes on to
\* the command exactly then, and otherwise runs no command, sends no
\* notification and starts no update of the store.
C28_CommandOnlyWhenDue ==
  [][/\ launches' # launches => Due(unwrapped, now)
     /\ job[SpeedtestTask] = "get" /\ job'[SpeedtestTask] # "get" =>
          IF Due(unwrapped, now)
          THEN job'[SpeedtestTask] = "command"
          ELSE /\ job'[SpeedtestTask] = "done"
               /\ launches' = launches /\ alerts' = alerts
               /\ call' = call /\ pc' = pc
               /\ state' = state /\ file' = file]_vars

\* C28 witness: the second run of the speedtest job has ended without a
\* command on a slow speed, the first run's tariff update being too recent.
C28_Witness ==
  /\ fires[SpeedtestTask] = 2 /\ job[SpeedtestTask] = "done"
  /\ ~gave_up[SpeedtestTask]
  /\ unwrapped.speedtest = Some(low_download_speed_threshold)
  /\ unwrapped.last_tariff_update = Some(now)
  /\ Len(launches) = 1

\* C29: two executions of the tariff command are separated by at least
\* min_update_tariff_interval.
C29_CommandsDebounced ==
  [][launches' # launches =>
       \A k \in 1..Len(launches) : now - launches[k] >= min_update_tariff_interval]_vars

\* The balance just read calls for an alert that can be sent.
AlertCalledFor == balance_read < low_balance_threshold /\ telegram

\* C30: after a successful acquisition the balance job sends an alert
\* exactly when the balance is strictly below low_balance_threshold and
\* telegram is configured; the send, and the enqueueing that follows a failed
\* one, come before the job takes the State mutex for the commit, and the
\* commit of the balance read follows whether or not the alert was delivered.
C30_AlertBeforeCommit ==
  [][/\ alerts'[BalanceTask] # alerts[BalanceTask] /\ alerts'[BalanceTask] # << >> =>
          /\ job[BalanceTask] = "alert"
          /\ AlertCalledFor
          /\ mutex # BalanceTask
     /\ job[BalanceTask] \in {"alert", "alert_push"} /\ job'[BalanceTask] # job[BalanceTask] =>
          job'[BalanceTask] \in {"alert_push", "lock"}
     /\ job[BalanceTask] # "update" /\ job'[BalanceTask] = "update" =>
          /\ job[BalanceTask] = "lock"
          /\ alerts[BalanceTask] # << >> <=> AlertCalledFor
          /\ call'[BalanceTask].kind = "update"
          /\ call'[BalanceTask].f = "balance"
          /\ call'[BalanceTask].arg = balance_read]_vars

\* C30 witness: a low balance whose alert could not be delivered has been
\* enqueued and then committed.
C30_Witness ==
  /\ job[BalanceTask] = "done" /\ ~gave_up[BalanceTask]
  /\ alerts[BalanceTask] = << "failed" >>
  /\ balance_read < low_balance_threshold
  /\ state.balance = Some(balance_read)
  /\ state.telegram_queue # << >>

InInsertionOrder(q) ==
  \A i \in 1..(Len(q) - 1) : q[i].timestamp <= q[i + 1].timestamp

\* C32: the stored notification queue is always in insertion order: its
\* entries are ordered by non-decreasing timestamp, also after entries that
\* failed again were written back.
C32_QueueInInsertionOrder ==
  InInsertionOrder(state.telegram_queue)

\* The field each job's commit assigns.
OwnField(f) ==
  CASE f = "ping_result" -> "is_wide_network_available"
    [] f = "speedtest"   -> "speedtest"
    [] f = "balance"     -> "balance"
    [] f = "tariff"      -> "last_tariff_update"

\* Task p runs the closure of a job's commit in this step.
Commits(p) ==
  /\ pc[p] = "mutate" /\ pc'[p] = "write"
  /\ call[p].kind = "update"
  /\ call[p].f \in {"ping_result", "speedtest", "balance", "tariff"}

\* C33: a job's commit changes only its own field of the record, and (while
\* no write has failed) every other field of the record it writes has the
\* value of the most recently committed record.
C33_CommitKeepsOtherFields ==
  [][\A p \in Tasks :
       Commits(p) =>
         \A g \in (DOMAIN DefaultState) \ {OwnField(call[p].f)} :
           /\ state'[g] = state[g]
           /\ ideal # None => state'[g] = ideal[1][g]]_vars

\* Task p waits for the state mutex of the store.
WaitsForStore(p) == pc[p] \in {"assign", "clone", "lock"} /\ stateLock \notin {NoTask, p}

\* Task p waits for the mutex around State.
WaitsForState(p) == job[p] = "lock" /\ mutex \notin {NoTask, p}

\* C34: the locks cannot deadlock and every call of the store completes: no
\* two tasks wait for a lock the other holds, a task outside a call holds
\* no lock of the store, and every get and update that was started returns,
\* also with an error, under fair scheduling.
C34_StoreCallsComplete ==
  /\ [](\A p, q \in Tasks :
         ~(WaitsForStore(p) /\ stateLock = q /\ WaitsForState(q) /\ mutex = p))
  /\ [](\A p \in Tasks : pc[p] = "idle" => stateLock # p)
  /\ \A p \in Tasks : (pc[p] # "idle") ~> (pc[p] = "idle")

\* C34 witness: a job that holds the mutex around State waits inside a call
\* of the store for the state mutex, which the other job's update holds.
C34_Witness ==
  \E p, q \in Tasks :
    /\ mutex = p /\ WaitsForStore(p)
    /\ stateLock = q /\ pc[q] = "write"

\* C35: process_queue partitions the drained batch.  Each turn of its loop
\* takes one entry off the batch and does exactly one of three things with
\* it: drops it as expired, delivers it, or puts it on new_queue as it was
\* (same chat_id, text and timestamp); an entry older than message_timeout
\* is always dropped; and what is written back are entries of the batch.
C35_BatchPartitioned ==
  [][/\ pq = "loop" /\ queue' # queue =>
          LET m == queue[Len(queue)]
              isDropped == /\ m \in dropped' /\ attempted' = attempted
                           /\ new_queue' = new_queue /\ delivered' = delivered
              isDelivered == /\ m \in delivered' /\ attempted' = Append(attempted, m)
                             /\ new_queue' = new_queue /\ dropped' = dropped
              isWrittenBack == /\ new_queue' = Append(new_queue, m)
                               /\ attempted' = Append(attempted, m)
                               /\ delivered' = delivered /\ dropped' = dropped
          IN /\ queue' = SubSeq(queue, 1, Len(queue) - 1)
             /\ isDropped \/ isDelivered \/ isWrittenBack
             /\ now - m.timestamp > message_timeout => isDropped
     /\ pq' \in {"loop", "write_back"} =>
          /\ Messages(new_queue') \subseteq Messages(drained')
          /\ Len(queue') + Len(new_queue') <= Len(drained')
     /\ pq = "loop" /\ pq' = "write_back" =>
          call'[QueueTask].f = "write_back" /\ call'[QueueTask].arg = new_queue]_vars

\* C35 witness: a run has gone through a batch of two entries, dropped the
\* expired one and put the other, whose delivery failed, on new_queue.
C35_Witness ==
  /\ pq = "write_back"
  /\ Len(drained) = 2 /\ Len(attempted) = 1 /\ new_queue = attempted
  /\ \E i \in 1..2 : drained[i] \in dropped /\ drained[i] # attempted[1]

\* C36: when the draining update of process_queue returns an error,
\* process_queue returns it without a delivery attempt and the stored queue
\* is as it was: every entry the drain took is still in it.
C36_FailedDrainKeepsQueue ==
  [][pq = "drain" /\ pq' = "failed" =>
       /\ attempted' = << >> /\ new_queue' = << >>
       /\ Messages(drained) \subseteq Messages(state'.telegram_queue)]_vars

====
